---- MODULE Spec2Model ----
(***************************************************************************)
(* Geolocation app: storefront config endpoints, schedule filter, usage    *)
(* gate and overage charging, modelled from the route handlers.            *)
(***************************************************************************)
EXTENDS Integers, Sequences, FiniteSets, TLC

VARIABLES
    settings,      \* Settings table: shop -> row
    rules,         \* RedirectRule table: rule id -> row
    usage,         \* MonthlyUsage table: shop -> yearMonth -> row
    now,           \* the instant new Date() returns (UTC weekday, minute, month)
    intl,          \* how the runtime's Intl formats local midnight
    response,      \* the last response of a storefront config endpoint
    subscription,  \* what billing.check reports for the shop
    billed,        \* units sent to billing.createUsageRecord, per yearMonth
    proc,          \* the overage-charging invocations in flight
    visitorLog,       \* VisitorLog table: shop -> number of rows, old and fresh
    analyticsCountry, \* AnalyticsCountry table: <<shop, date, countryCode>> -> row
    analyticsRule,    \* AnalyticsRule table: <<shop, date, ruleId>> -> row
    lastCleanupDate,  \* cleanup.server: the module variable lastCleanupDate
    session,          \* Session table: the shops that have a session row
    events,           \* the requests and calls in flight that are followed step by step
    upsertNative,     \* whether prisma runs upsert as one INSERT .. ON CONFLICT
    request,          \* the request that has arrived and is answered next
    deletes,          \* cleanup.server: visitorLog.deleteMany statements started today
    reader,           \* maxmind.server: the module variable reader
    initPromise,      \* maxmind.server: the module variable initPromise
    initCalls,        \* maxmind.server: the calls of initReader so far
    loginAttempts,    \* admin.session.server: the map loginAttempts, ip -> entry
    clock             \* Date.now() of the admin login, in minutes

\* the tables and module state only the analytics, cleanup and webhook
\* handlers touch
analyticsTables == <<visitorLog, analyticsCountry, analyticsRule, lastCleanupDate>>
processState == <<request, deletes, reader, initPromise, initCalls, loginAttempts, clock>>
webhookState == <<session, events, upsertNative, processState>>

vars == <<settings, rules, usage, now, intl, response, subscription, billed, proc,
          analyticsTables, webhookState>>

----------------------------------------------------------------------------
(* billing.config *)

FREE_PLAN == "free"
PREMIUM_PLAN == "premium"
PLUS_PLAN == "plus"
ALL_PAID_PLANS == {PREMIUM_PLAN, PLUS_PLAN}

FreeLimit == 100
PremiumLimit == 750
PlusLimit == 1500

\* PLAN_LIMITS[name] || PLAN_LIMITS[FREE_PLAN]: an unknown name has no entry
PLAN_LIMITS(plan) ==
    CASE plan = FREE_PLAN -> FreeLimit
      [] plan = PREMIUM_PLAN -> PremiumLimit
      [] plan = PLUS_PLAN -> PlusLimit
      [] OTHER -> FreeLimit

----------------------------------------------------------------------------
(* Values *)

Null == "null"          \* a NULL column / a missing form field
Empty == ""             \* the empty string
NoRow == [exists |-> FALSE]

\* JavaScript truthiness of a nullable string column
Truthy(s) == s # Null /\ s # Empty

NaN == -1               \* Number("x"); every comparison with it is false

NumLe(a, b) == a # NaN /\ b # NaN /\ a <= b
NumLt(a, b) == a # NaN /\ b # NaN /\ a < b
NumGt(a, b) == a # NaN /\ b # NaN /\ a > b

MinutesPerHour == 60
HoursPerDay == 24
DaysPerWeek == 7
MinutesPerDay == MinutesPerHour * HoursPerDay

\* an "HH:mm" column: NULL, "", a well-formed time, or text that is no number
NullTime == [kind |-> "null"]
EmptyTime == [kind |-> "empty"]
BadTime == [kind |-> "bad"]
HM(h, m) == [kind |-> "hm", h |-> h, m |-> m]

TimeTruthy(t) == t.kind # "null" /\ t.kind # "empty"

\* const [h, m] = t.split(":").map(Number); h * 60 + m
ParseMinutes(t) == IF t.kind = "hm" THEN t.h * MinutesPerHour + t.m ELSE NaN

\* IANA zones as their UTC offset in minutes; an unknown identifier makes
\* Intl.DateTimeFormat throw a RangeError
KnownZones == {"UTC", "Asia/Ho_Chi_Minh"}
ZoneOffset(tz) ==
    CASE tz = "UTC" -> 0
      [] tz = "Asia/Ho_Chi_Minh" -> 420

\* wall clock of instant t in a zone: [day, hour, minute]
LocalTime(t, tz) ==
    LET total == t.day * MinutesPerDay + t.hour * MinutesPerHour + t.minute + ZoneOffset(tz)
        wrapped == (total + DaysPerWeek * MinutesPerDay) % (DaysPerWeek * MinutesPerDay)
    IN [day |-> wrapped \div MinutesPerDay,
        hour |-> (wrapped % MinutesPerDay) \div MinutesPerHour,
        minute |-> wrapped % MinutesPerHour]

\* the hour part formatToParts yields with hour12: false; some runtimes
\* print midnight as 24
FormatHour(h, fmt) == IF h = 0 /\ fmt = "h24" THEN HoursPerDay ELSE h

\* getDay().toString()
DayNames == <<"0", "1", "2", "3", "4", "5", "6">>
DayStr(d) == DayNames[d + 1]

\* a comma-separated text column: NULL, "", or its items in order; an item
\* is its text and whether blanks surround it
NullCsv == [kind |-> "null"]
EmptyCsv == [kind |-> "empty"]
Item(text) == [text |-> text, pad |-> FALSE]
Padded(text) == [text |-> text, pad |-> TRUE]
Csv(items) == [kind |-> "csv", items |-> items]

CsvTruthy(c) == c.kind = "csv"

\* s.split(","): "" splits into the single item ""
Split(c) == IF c.kind = "csv" THEN c.items ELSE <<Item(Empty)>>

Trim(item) == [text |-> item.text, pad |-> FALSE]

UpperOf(text) ==
    CASE text = "de" -> "DE"
      [] text = "vn" -> "VN"
      [] OTHER -> text

ToUpperCase(item) == [text |-> UpperOf(item.text), pad |-> item.pad]

MapSeq(q, Op(_)) == [i \in 1..Len(q) |-> Op(q[i])]

\* Array.prototype.includes with a plain string
Includes(items, text) == \E i \in 1..Len(items) : items[i] = Item(text)

----------------------------------------------------------------------------
(* Schedule filter of proxy.config *)

\* Normal range, e.g. 09:00-17:00: false when the rule is skipped
normalRangeExclusiveEnd(currentMinutes, startMinutes, endMinutes) ==
    ~(NumLt(currentMinutes, startMinutes) \/ ~NumLt(currentMinutes, endMinutes))

normalRange(currentMinutes, startMinutes, endMinutes) ==
    ~(NumLt(currentMinutes, startMinutes) \/ NumGt(currentMinutes, endMinutes))

\* Overnight range, e.g. 22:00-06:00: false when the rule is skipped
overnightRangeExclusive(currentMinutes, startMinutes, endMinutes) ==
    ~(NumLe(currentMinutes, startMinutes) /\ ~NumLt(currentMinutes, endMinutes))

overnightRange(currentMinutes, startMinutes, endMinutes) ==
    ~(NumLt(currentMinutes, startMinutes) /\ NumGt(currentMinutes, endMinutes))

\* Check Day of week: true when the rule is skipped for the day
dayExcludedNever(daysOfWeek, currentDay) == FALSE

dayExcluded(daysOfWeek, currentDay) ==
    CsvTruthy(daysOfWeek) /\ ~Includes(Split(daysOfWeek), currentDay)

\* catch (e): fail safe, active if check fails
catchHidesRule(rule) == FALSE

catchScheduleError(rule) == TRUE

\* the try block of the filter callback, for a rule with scheduleEnabled
scheduleTry(rule, t, fmt) ==
    LET timezone == IF Truthy(rule.timezone) THEN rule.timezone ELSE "UTC"
    IN  IF timezone \notin KnownZones
        THEN catchScheduleError(rule)   \* Intl.DateTimeFormat throws a RangeError
        ELSE
            LET local == LocalTime(t, timezone)
                currentHour == FormatHour(local.hour, fmt) % HoursPerDay
                currentMinutes == currentHour * MinutesPerHour + local.minute
                currentDay == DayStr(local.day)
            IN  IF dayExcluded(rule.daysOfWeek, currentDay)
                THEN FALSE
                ELSE IF TimeTruthy(rule.startTime) /\ TimeTruthy(rule.endTime)
                THEN
                    LET startMinutes == ParseMinutes(rule.startTime)
                        endMinutes == ParseMinutes(rule.endTime)
                    IN  IF NumLe(startMinutes, endMinutes)
                        THEN normalRange(currentMinutes, startMinutes, endMinutes)
                        ELSE overnightRange(currentMinutes, startMinutes, endMinutes)
                ELSE TRUE

scheduleFilterAlwaysChecked(rule, t, fmt) == scheduleTry(rule, t, fmt)

\* the callback of countryRules.filter(...)
scheduleFilter(rule, t, fmt) ==
    IF ~rule.scheduleEnabled THEN TRUE ELSE scheduleTry(rule, t, fmt)

\* countryRules.filter(rule => ...), over a list of rule ids
activeCountryRules(countryRules, t, fmt) ==
    SelectSeq(countryRules, LAMBDA id : scheduleFilter(rules[id], t, fmt))

----------------------------------------------------------------------------
(* Queries *)

Shops == {"a.myshopify.com", "b.myshopify.com"}
RuleIds == {"r1", "r2", "r3"}

Perms(S) == {q \in [1..Cardinality(S) -> S] : \A i, j \in 1..Cardinality(S) : q[i] = q[j] => i = j}

\* orderBy: { priority: "desc" }; rows of equal priority come in any order
orderByPriorityDesc(q) ==
    \A i, j \in 1..Len(q) : i < j => rules[q[i]].priority >= rules[q[j]].priority

\* redirectRule.findMany({ where: { shop, isActive: true, matchType } })
findManyActive(shop, matchTypes) ==
    LET hit == {id \in RuleIds : /\ rules[id].exists
                                 /\ rules[id].shop = shop
                                 /\ rules[id].isActive
                                 /\ rules[id].matchType \in matchTypes}
    IN  {q \in Perms(hit) : orderByPriorityDesc(q)}

----------------------------------------------------------------------------
(* Rows *)

\* Settings row as prisma creates it from { shop }: the schema defaults; the
\* default of currentPlan is either NULL or the free plan
DefaultSettings(plan) ==
    [exists |-> TRUE, mode |-> "popup", excludedIPs |-> EmptyCsv, excludeBots |-> TRUE,
     currentPlan |-> plan]

PlanDefaults == {Null, FREE_PLAN}

NoResponse ==
    [endpoint |-> "none", shop |-> Null, type |-> Null, status |-> 0, keys |-> {},
     enabled |-> FALSE, limitExceeded |-> FALSE, mode |-> Null,
     visitorIP |-> Null, detectedCountry |-> Empty, isIPExcluded |-> FALSE,
     excludeBots |-> FALSE, rules |-> <<>>, ipRules |-> <<>>]

\* json(body, { status }): keys names the fields the body carries
Json(endpoint, shop, status, keys) ==
    [NoResponse EXCEPT !.endpoint = endpoint, !.shop = shop,
                       !.status = status, !.keys = keys]

\* response holds an answer until the storefront has received it; nothing
\* else is scheduled in between, so the answer is read next to the tables
\* and the clock it was computed from
Quiet == response = NoResponse

Receive ==
    /\ response # NoResponse
    /\ response' = NoResponse
    /\ UNCHANGED <<settings, rules, usage, now, intl, subscription, billed, proc, analyticsTables, webhookState>>

\* this step answers a request to the endpoint
Served(endpoint) == response' # response /\ response'.endpoint = endpoint

ConfigKeys == {"enabled", "mode", "visitorIP", "isIPExcluded", "excludeBots",
               "rules", "ipRules"}

\* monthlyUsage?.totalVisitors || 0
totalVisitorsOf(row) == IF row.exists THEN row.totalVisitors ELSE 0
chargedVisitorsOf(row) == IF row.exists THEN row.chargedVisitors ELSE 0

----------------------------------------------------------------------------
(* proxy.config loader *)

transformedCountryRules(ids) ==
    MapSeq(ids, LAMBDA id :
        [ruleId |-> id,
         countries |-> MapSeq(Split(rules[id].countryCodes),
                              LAMBDA c : ToUpperCase(Trim(c))),
         ruleType |-> rules[id].ruleType,
         priority |-> rules[id].priority])

transformedIPRulesFromCountryCodes(ids) ==
    MapSeq(ids, LAMBDA id :
        [ruleId |-> id,
         ips |-> MapSeq(Split(rules[id].countryCodes), Trim),
         ruleType |-> rules[id].ruleType,
         priority |-> rules[id].priority])

transformedIPRules(ids) ==
    MapSeq(ids, LAMBDA id :
        [ruleId |-> id,
         ips |-> MapSeq(Split(rules[id].ipAddresses), Trim),
         ruleType |-> rules[id].ruleType,
         priority |-> rules[id].priority])

\* excludedIPs ? excludedIPs.split(",").map(trim).includes(visitorIP) : false
isIPExcludedUntrimmed(excludedIPs, visitorIP) ==
    IF CsvTruthy(excludedIPs)
    THEN Includes(Split(excludedIPs), visitorIP)
    ELSE FALSE

isIPExcluded(excludedIPs, visitorIP) ==
    IF CsvTruthy(excludedIPs)
    THEN Includes(MapSeq(Split(excludedIPs), Trim), visitorIP)
    ELSE FALSE

\* PLAN LIMIT CHECK: currentPlan === FREE_PLAN && currentUsage >= planLimit
limitExceededStrict(planColumn, currentUsage) ==
    LET currentPlan == IF Truthy(planColumn) THEN planColumn ELSE Null
        planLimit == IF currentPlan # Null THEN PLAN_LIMITS(currentPlan)
                     ELSE PLAN_LIMITS(FREE_PLAN)
    IN  currentPlan = FREE_PLAN /\ currentUsage > planLimit

limitExceeded(planColumn, currentUsage) ==
    LET currentPlan == IF Truthy(planColumn) THEN planColumn ELSE Null
        planLimit == IF currentPlan # Null THEN PLAN_LIMITS(currentPlan)
                     ELSE PLAN_LIMITS(FREE_PLAN)
    IN  currentPlan = FREE_PLAN /\ currentUsage >= planLimit

\* the body returned when the free plan limit is exceeded
limitExceededResponseEnabled(shop) ==
    [Json("proxy.config", shop, 200, {"enabled", "limitExceeded"})
        EXCEPT !.limitExceeded = TRUE, !.enabled = TRUE]

limitExceededResponse(shop) ==
    [Json("proxy.config", shop, 200, {"enabled", "limitExceeded"})
        EXCEPT !.limitExceeded = TRUE]

\* enabled: settings.mode !== "disabled"
enabledAlways(mode) == TRUE

enabledOf(mode) == mode # "disabled"

\* GET /apps/geolocation/config. failAt names the query that throws, if any
ProxyConfig(shop, visitorIP, detectedCountry, sigOk, failAt, planDefault, countryRules, ipRulesRaw) ==
    LET P == "proxy.config" IN
    /\ UNCHANGED <<rules, usage, now, intl, subscription, billed, proc, analyticsTables, webhookState>>
    /\ IF shop = Null
       THEN /\ response' = Json(P, shop, 400, {"error", "enabled"})
            /\ UNCHANGED settings
       ELSE IF ~sigOk
       THEN /\ response' = Json(P, shop, 401, {"error"})
            /\ UNCHANGED settings
       ELSE IF failAt = "settings"
       THEN /\ response' = Json(P, shop, 500, {"error", "enabled"})
            /\ UNCHANGED settings
       ELSE
         LET active == activeCountryRules(countryRules, now, intl)
             effectiveSettings == IF settings[shop].exists THEN settings[shop]
                                  ELSE DefaultSettings(planDefault)
             currentUsage == totalVisitorsOf(usage[shop][now.month])
         IN
         /\ settings' = [settings EXCEPT ![shop] = effectiveSettings]
         /\ IF failAt = "usage"
            THEN response' = Json(P, shop, 500, {"error", "enabled"})
            ELSE IF limitExceeded(effectiveSettings.currentPlan, currentUsage)
            THEN response' = limitExceededResponse(shop)
            ELSE response' =
                   [Json(P, shop, 200, ConfigKeys \cup {"detectedCountry"})
                      EXCEPT !.enabled = enabledOf(effectiveSettings.mode),
                             !.mode = effectiveSettings.mode,
                             !.visitorIP = visitorIP,
                             !.detectedCountry = detectedCountry,
                             !.isIPExcluded =
                                 isIPExcluded(effectiveSettings.excludedIPs, visitorIP),
                             !.excludeBots = effectiveSettings.excludeBots,
                             !.rules = transformedCountryRules(active),
                             !.ipRules = transformedIPRules(ipRulesRaw)]

----------------------------------------------------------------------------
(* api.geolocation loader *)

\* GET /api/geolocation
ApiGeolocation(shop, visitorIP, failAt, allRules) ==
    LET A == "api.geolocation" IN
    /\ UNCHANGED <<settings, rules, usage, now, intl, subscription, billed, proc, analyticsTables, webhookState>>
    /\ IF shop = Null
       THEN response' = Json(A, shop, 400, {"error"})
       ELSE IF failAt # "none"
       THEN response' = Json(A, shop, 500, {"error"})
       ELSE IF ~settings[shop].exists
       THEN response' =
              [Json(A, shop, 200, {"enabled", "mode", "visitorIP", "rules", "ipRules"})
                 EXCEPT !.mode = "disabled", !.visitorIP = visitorIP]
       ELSE response' =
              [Json(A, shop, 200, ConfigKeys)
                 EXCEPT !.enabled = enabledOf(settings[shop].mode),
                        !.mode = settings[shop].mode,
                        !.visitorIP = visitorIP,
                        !.isIPExcluded =
                            isIPExcluded(settings[shop].excludedIPs, visitorIP),
                        !.excludeBots = settings[shop].excludeBots,
                        !.rules = transformedCountryRules(
                            SelectSeq(allRules,
                                      LAMBDA id : rules[id].matchType = "country")),
                        !.ipRules = transformedIPRules(
                            SelectSeq(allRules,
                                      LAMBDA id : rules[id].matchType = "ip"))]

----------------------------------------------------------------------------
(* cleanup.server: cleanupOldLogs *)

\* new Date().toISOString().slice(0, 10)
Today == [month |-> now.month, day |-> now.day]

NoLogs == [old |-> 0, fresh |-> 0]

\* let lastCleanupDate = ""
NeverCleaned == [month |-> 0, day |-> 0]

\* the VisitorLog table and lastCleanupDate after cleanupOldLogs(): rows past
\* the retention period go, for every shop; a failed deleteMany is logged
cleanupOldLogs(ok) ==
    IF lastCleanupDate = Today \/ ~ok
    THEN [logs |-> visitorLog, last |-> lastCleanupDate]
    ELSE [logs |-> [s \in DOMAIN visitorLog |-> [visitorLog[s] EXCEPT !.old = 0]],
          last |-> Today]

----------------------------------------------------------------------------
(* proxy.analytics action *)

VALID_TYPES == {"visit", "popup_shown", "redirected", "auto_redirected", "blocked",
                "ip_redirected", "ip_blocked", "clicked_no", "dismissed"}

RedirectTypes == {"redirected", "auto_redirected", "ip_redirected"}
BlockTypes == {"blocked", "ip_blocked"}

CountryCodes == {"DE", "VN"}
Dates == [month : {1, 2}, day : {0, 1, DaysPerWeek - 1}]

\* analyticsCountry.upsert: the counter of the type goes up, or the row is
\* created with it at 1
CountryTypes == {"visit", "popup_shown"} \cup RedirectTypes \cup BlockTypes

analyticsCountryUpsert(row, type) ==
    IF row.exists
    THEN [row EXCEPT !.visitors = IF type = "visit" THEN @ + 1 ELSE @,
                     !.popupShown = IF type = "popup_shown" THEN @ + 1 ELSE @,
                     !.redirected = IF type \in RedirectTypes THEN @ + 1 ELSE @,
                     !.blocked = IF type \in BlockTypes THEN @ + 1 ELSE @]
    ELSE [exists |-> TRUE,
          visitors |-> IF type = "visit" THEN 1 ELSE 0,
          popupShown |-> IF type = "popup_shown" THEN 1 ELSE 0,
          redirected |-> IF type \in RedirectTypes THEN 1 ELSE 0,
          blocked |-> IF type \in BlockTypes THEN 1 ELSE 0]

\* analyticsRule.upsert; the create data names no blocked counter, so a row
\* created by an ip_blocked event starts with the column default
RuleTypes == {"popup_shown", "redirected", "auto_redirected", "ip_redirected",
              "clicked_no", "dismissed", "ip_blocked"}

analyticsRuleUpsert(row, type) ==
    IF row.exists
    THEN [row EXCEPT !.seen = IF type = "popup_shown" THEN @ + 1 ELSE @,
                     !.clickedYes = IF type = "redirected" THEN @ + 1 ELSE @,
                     !.autoRedirected =
                         IF type \in {"auto_redirected", "ip_redirected"} THEN @ + 1 ELSE @,
                     !.clickedNo = IF type = "clicked_no" THEN @ + 1 ELSE @,
                     !.dismissed = IF type = "dismissed" THEN @ + 1 ELSE @,
                     !.blocked = IF type = "ip_blocked" THEN @ + 1 ELSE @]
    ELSE [exists |-> TRUE,
          seen |-> IF type = "popup_shown" THEN 1 ELSE 0,
          clickedYes |-> IF type = "redirected" THEN 1 ELSE 0,
          autoRedirected |-> IF type \in {"auto_redirected", "ip_redirected"} THEN 1 ELSE 0,
          clickedNo |-> IF type = "clicked_no" THEN 1 ELSE 0,
          dismissed |-> IF type = "dismissed" THEN 1 ELSE 0,
          blocked |-> 0]

\* monthlyUsage.upsert: increment the row, or create it at 1
monthlyUsageUpsertFromZero(row, type) ==
    IF row.exists
    THEN [row EXCEPT !.totalVisitors = @ + 1]
    ELSE [exists |-> TRUE, totalVisitors |-> 0, redirected |-> 0, blocked |-> 0,
          chargedVisitors |-> 0]

monthlyUsageUpsertBlockedUncounted(row, type) ==
    IF row.exists
    THEN [row EXCEPT !.totalVisitors = @ + 1,
                     !.redirected = IF type \in RedirectTypes THEN @ + 1 ELSE @]
    ELSE [exists |-> TRUE, totalVisitors |-> 1,
          redirected |-> IF type \in RedirectTypes THEN 1 ELSE 0,
          blocked |-> 0,
          chargedVisitors |-> 0]

monthlyUsageUpsert(row, type) ==
    IF row.exists
    THEN [row EXCEPT !.totalVisitors = @ + 1,
                     !.redirected = IF type \in RedirectTypes THEN @ + 1 ELSE @,
                     !.blocked = IF type \in BlockTypes THEN @ + 1 ELSE @]
    ELSE [exists |-> TRUE, totalVisitors |-> 1,
          redirected |-> IF type \in RedirectTypes THEN 1 ELSE 0,
          blocked |-> IF type \in BlockTypes THEN 1 ELSE 0,
          chargedVisitors |-> 0]

\* the database statement that throws during a request, if any
FailPoints == {"none", "settings", "log", "country", "rule", "usage"}

\* the event gets past the checks: a registered shop, a whitelisted type
acceptedAnyType(shop, type) == shop # Null /\ type # Null /\ settings[shop].exists

accepted(shop, type) ==
    /\ shop # Null /\ type # Null
    /\ settings[shop].exists
    /\ type \in VALID_TYPES

\* POST /apps/geolocation/analytics with a JSON body; event holds the body's
\* type, countryCode, ruleId and visitorIP, failAt names the database
\* statement that throws, if any
ProxyAnalytics(shop, event, failAt, cleanupOk) ==
    LET P == "proxy.analytics"
        type == event.type
        cleaned == cleanupOldLogs(cleanupOk)
        valid == accepted(shop, type)
        threw ==
            \/ failAt = "country" /\ Truthy(event.countryCode) /\ type \in CountryTypes
            \/ failAt = "rule" /\ Truthy(event.ruleId) /\ type \in RuleTypes
            \/ failAt = "usage" /\ type \in RedirectTypes \cup BlockTypes
        answer ==
            IF shop = Null \/ type = Null THEN Json(P, shop, 400, {"error"})
            ELSE IF failAt = "settings" THEN Json(P, shop, 500, {"error"})
            ELSE IF ~settings[shop].exists THEN Json(P, shop, 401, {"error"})
            ELSE IF type \notin VALID_TYPES THEN Json(P, shop, 400, {"error"})
            ELSE IF threw THEN Json(P, shop, 500, {"error"})
            ELSE Json(P, shop, 200, {"success"})
    IN
    /\ UNCHANGED <<settings, rules, now, intl, subscription, billed, proc, webhookState>>
    /\ lastCleanupDate' = cleaned.last
    /\ response' = [answer EXCEPT !.type = type]
    /\ LET in == valid /\ failAt # "settings"
           \* 0. Save Detailed Visitor Log; an error is caught and logged
           logged == in /\ Truthy(event.visitorIP) /\ failAt # "log"
           counted == in /\ Truthy(event.countryCode) /\ type \in CountryTypes
           countryDone == counted /\ failAt # "country"
           countryThrew == counted /\ failAt = "country"
           ruled == in /\ ~countryThrew /\ Truthy(event.ruleId) /\ type \in RuleTypes
           ruleDone == ruled /\ failAt # "rule"
           ruleThrew == ruled /\ failAt = "rule"
           used == in /\ ~countryThrew /\ ~ruleThrew
                      /\ type \in RedirectTypes \cup BlockTypes /\ failAt # "usage"
       IN  /\ visitorLog' =
                IF logged
                THEN [cleaned.logs EXCEPT ![shop].fresh = @ + 1]
                ELSE cleaned.logs
           /\ analyticsCountry' =
                IF countryDone
                THEN [analyticsCountry EXCEPT ![<<shop, Today, event.countryCode>>] =
                          analyticsCountryUpsert(@, type)]
                ELSE analyticsCountry
           /\ analyticsRule' =
                IF ruleDone
                THEN [analyticsRule EXCEPT ![<<shop, Today, event.ruleId>>] =
                          analyticsRuleUpsert(@, type)]
                ELSE analyticsRule
           /\ usage' =
                IF used
                THEN [usage EXCEPT ![shop][now.month] = monthlyUsageUpsert(@, type)]
                ELSE usage

\* an event that carries its type alone
BareEvent(type) ==
    [type |-> type, countryCode |-> Null, ruleId |-> Null, visitorIP |-> Null]

----------------------------------------------------------------------------
(* app.settings action *)

\* settings.upsert({ where: { shop }, update: {...}, create: {...} })
SettingsAction(shop, mode, excludedIPs, planDefault) ==
    /\ UNCHANGED <<rules, usage, now, intl, response, subscription, billed, proc, analyticsTables, webhookState>>
    /\ settings' = [settings EXCEPT ![shop] =
           IF @.exists
           THEN [@ EXCEPT !.mode = mode, !.excludedIPs = excludedIPs]
           ELSE [DefaultSettings(planDefault) EXCEPT !.mode = mode,
                                                     !.excludedIPs = excludedIPs]]

----------------------------------------------------------------------------
(* app.rules and app.ip-rules actions *)

\* the id prisma generates for a new row
FreshIds == {id \in RuleIds : ~rules[id].exists}

ruleFrame == UNCHANGED <<settings, usage, now, intl, response, subscription, billed, proc, analyticsTables, webhookState>>

\* the row redirectRule.create stores for a country rule
RuleRow(shop, matchType, form) ==
    [exists |-> TRUE, shop |-> shop, matchType |-> matchType,
     isActive |-> TRUE, priority |-> form.priority, ruleType |-> form.ruleType,
     countryCodes |-> form.countryCodes, ipAddresses |-> EmptyCsv,
     scheduleEnabled |-> form.scheduleEnabled,
     startTime |-> form.startTime, endTime |-> form.endTime,
     daysOfWeek |-> form.daysOfWeek, timezone |-> form.timezone]

\* the row redirectRule.create stores for an IP rule: the schedule columns
\* keep their schema defaults
IpRuleRow(shop, form) ==
    [exists |-> TRUE, shop |-> shop, matchType |-> "ip",
     isActive |-> TRUE, priority |-> form.priority, ruleType |-> form.ruleType,
     countryCodes |-> EmptyCsv, ipAddresses |-> form.ipAddresses,
     scheduleEnabled |-> FALSE,
     startTime |-> NullTime, endTime |-> NullTime,
     daysOfWeek |-> NullCsv, timezone |-> Null]

\* app.rules, intent "create"; form carries the submitted fields
RulesCreate(shop, id, form) ==
    /\ id \in FreshIds
    /\ ruleFrame
    /\ rules' = [rules EXCEPT ![id] = RuleRow(shop, "country", form)]

\* app.rules, intent "update": where: { id }; a missing row throws
RulesUpdate(shop, id, form) ==
    /\ ruleFrame
    /\ IF rules[id].exists
       THEN rules' = [rules EXCEPT ![id] =
              [@ EXCEPT !.priority = form.priority,
                        !.ruleType = form.ruleType,
                        !.countryCodes = form.countryCodes,
                        !.scheduleEnabled = form.scheduleEnabled,
                        !.startTime = form.startTime, !.endTime = form.endTime,
                        !.daysOfWeek = form.daysOfWeek, !.timezone = form.timezone]]
       ELSE UNCHANGED rules

\* app.ip-rules, intent "create"
IpRulesCreate(shop, id, form) ==
    /\ id \in FreshIds
    /\ ruleFrame
    /\ rules' = [rules EXCEPT ![id] = IpRuleRow(shop, form)]

\* app.ip-rules, intent "update": where: { id }
IpRulesUpdate(shop, id, form) ==
    /\ ruleFrame
    /\ IF rules[id].exists
       THEN rules' = [rules EXCEPT ![id] =
              [@ EXCEPT !.priority = form.priority,
                        !.ruleType = form.ruleType,
                        !.ipAddresses = form.ipAddresses]]
       ELSE UNCHANGED rules

\* intent "toggle" of either page: isActive becomes the negation of the
\* submitted isActive field
RulesToggle(shop, id, isActive) ==
    /\ ruleFrame
    /\ IF rules[id].exists
       THEN rules' = [rules EXCEPT ![id].isActive = ~isActive]
       ELSE UNCHANGED rules

\* intent "delete" of either page: deleteMany({ where: { id: { in: ids } } })
RulesDelete(shop, ids) ==
    /\ ruleFrame
    /\ rules' = [id \in RuleIds |-> IF id \in ids THEN NoRow ELSE rules[id]]

----------------------------------------------------------------------------
(* Time *)

\* the element after x in a list, cyclically
NextIn(q, x) ==
    LET i == CHOOSE k \in 1..Len(q) : q[k] = x
    IN  IF i = Len(q) THEN q[1] ELSE q[i + 1]

Last(q) == q[Len(q)]

\* time passes: the clock moves to the next instant of the grid
Advance(hours, minutes, days) ==
    /\ now' = IF now.minute # Last(minutes)
              THEN [now EXCEPT !.minute = NextIn(minutes, @)]
              ELSE IF now.hour # Last(hours)
              THEN [now EXCEPT !.minute = minutes[1], !.hour = NextIn(hours, @)]
              ELSE [now EXCEPT !.minute = minutes[1], !.hour = hours[1],
                               !.day = NextIn(days, @)]
    /\ UNCHANGED <<settings, rules, usage, intl, response, subscription, billed, proc, analyticsTables, webhookState>>

----------------------------------------------------------------------------
(* Specification of the schedule filter: one country rule of one shop, its   *)
(* schedule fields drawn from the forms an admin can submit, requests served *)
(* as time passes                                                            *)

ShopA == "a.myshopify.com"
ShopB == "b.myshopify.com"

GridHours == <<0, 1, 2, 6, 8, 9, 10, 15, 17, 22, 23>>
GridMinutes == <<0, 1, 59>>
GridDays == <<0, 6>>

StartTimes == {EmptyTime, BadTime, HM(0, 0), HM(9, 0), HM(17, 0), HM(22, 0)}
EndTimes == {NullTime, HM(0, 0), HM(6, 0), HM(9, 0), HM(17, 0), HM(23, 59)}
DayLists == {NullCsv, Csv(<<Item("1"), Item("2"), Item("3"), Item("4"), Item("5")>>),
             Csv(<<Item("0"), Item("6")>>)}
Zones == {Null, "Asia/Ho_Chi_Minh", "Mars/Phobos"}

ScheduleForms ==
    [priority : {0}, ruleType : {"redirect"}, countryCodes : {Csv(<<Item("DE")>>)},
     scheduleEnabled : BOOLEAN, startTime : StartTimes, endTime : EndTimes,
     daysOfWeek : DayLists, timezone : Zones]

NoUsage == [s \in Shops |-> [m \in {1, 2} |-> NoRow]]
NoRules == [id \in RuleIds |-> NoRow]
NoSettings == [s \in Shops |-> NoRow]

NoVisitorLog == [s \in Shops |-> NoLogs]
NoAnalyticsCountry == [k \in Shops \X Dates \X CountryCodes |-> NoRow]
NoAnalyticsRule == [k \in Shops \X Dates \X RuleIds |-> NoRow]

\* no request waiting, no cleanup statement started, the geolocation reader
\* not asked for yet, no failed login on record
NoRequest == [kind |-> "none"]
NoEntries == [ip \in {"10.0.0.1", "10.0.1.7"} |-> [exists |-> FALSE]]

NoProcessState ==
    /\ request = NoRequest
    /\ deletes = 0
    /\ reader = Null
    /\ initPromise = Null
    /\ initCalls = 0
    /\ loginAttempts = NoEntries
    /\ clock = 0

\* no analytics recorded, the day's cleanup done, every shop installed, no
\* analytics request in flight
NoAnalytics ==
    /\ visitorLog = NoVisitorLog
    /\ analyticsCountry = NoAnalyticsCountry
    /\ analyticsRule = NoAnalyticsRule
    /\ lastCleanupDate = Today
    /\ session = Shops
    /\ events = <<>>
    /\ upsertNative = TRUE
    /\ NoProcessState

InitSchedule ==
    /\ settings = [NoSettings EXCEPT ![ShopA] = DefaultSettings(PREMIUM_PLAN)]
    /\ \E form \in ScheduleForms :
          rules = [NoRules EXCEPT !["r1"] = RuleRow(ShopA, "country", form)]
    /\ usage = NoUsage
    /\ now \in [day : {0, 6}, hour : {GridHours[i] : i \in 1..Len(GridHours)},
                minute : {0, 1, 59}, month : {1}]
    /\ intl \in {"h00", "h24"}
    /\ response = NoResponse
    /\ subscription = [s \in Shops |-> Null]
    /\ billed = [m \in {1, 2} |-> 0]
    /\ proc = <<>>
    /\ NoAnalytics

ScheduleRequest ==
    \E countryRules \in findManyActive(ShopA, {"country"}),
       ipRulesRaw \in findManyActive(ShopA, {"ip"}) :
        ProxyConfig(ShopA, "10.0.0.1", "DE", TRUE, "none", Null,
                    countryRules, ipRulesRaw)

ScheduleTick == Quiet /\ Advance(GridHours, GridMinutes, GridDays)

NextSchedule == ScheduleRequest \/ ScheduleTick \/ Receive

SpecSchedule == InitSchedule /\ [][NextSchedule]_vars

----------------------------------------------------------------------------
(* Properties of the schedule filter *)

\* the rule is in the country rule list of a response
Delivered(resp, id) == \E i \in 1..Len(resp.rules) : resp.rules[i].ruleId = id
DeliveredIP(resp, id) == \E i \in 1..Len(resp.ipRules) : resp.ipRules[i].ruleId = id

ActiveRule(id, shop, matchType) ==
    /\ rules[id].exists
    /\ rules[id].shop = shop
    /\ rules[id].isActive
    /\ rules[id].matchType = matchType

\* minute of the day on the wall clock of the rule's zone (UTC when unset)
LocalMinuteOfDay(rule) ==
    LET l == LocalTime(now, IF Truthy(rule.timezone) THEN rule.timezone ELSE "UTC")
    IN  l.hour * MinutesPerHour + l.minute

LocalDay(rule) ==
    LocalTime(now, IF Truthy(rule.timezone) THEN rule.timezone ELSE "UTC").day

ValidZone(rule) == ~Truthy(rule.timezone) \/ rule.timezone \in KnownZones

\* the day list lets the rule through today
DayAllowed(rule) ==
    \/ rule.daysOfWeek.kind # "csv"
    \/ \E i \in 1..Len(rule.daysOfWeek.items) :
          rule.daysOfWeek.items[i] = Item(DayStr(LocalDay(rule)))

WellFormedWindow(rule) == rule.startTime.kind = "hm" /\ rule.endTime.kind = "hm"

StartMinute(rule) == rule.startTime.h * MinutesPerHour + rule.startTime.m
EndMinute(rule) == rule.endTime.h * MinutesPerHour + rule.endTime.m

\* C8: a country rule with scheduleEnabled = false passes the schedule filter
\* at every instant, whatever its startTime, endTime, daysOfWeek and timezone
\* hold: every request delivers it.
C8_UnscheduledRuleAlwaysPasses ==
    [][Served("proxy.config") =>
        \A id \in RuleIds :
            (ActiveRule(id, ShopA, "country") /\ ~rules[id].scheduleEnabled)
                => Delivered(response', id)]_vars

\* an unscheduled rule whose window and day list would both exclude the
\* current instant has been delivered
C8_Witness ==
    /\ ActiveRule("r1", ShopA, "country")
    /\ ~rules["r1"].scheduleEnabled
    /\ rules["r1"].startTime = HM(9, 0) /\ rules["r1"].endTime = HM(17, 0)
    /\ rules["r1"].daysOfWeek = Csv(<<Item("0"), Item("6")>>)
    /\ rules["r1"].timezone = "Mars/Phobos"
    /\ now.hour = 22 /\ now.day = 0
    /\ response.status = 200 /\ Delivered(response, "r1")

\* C9: for a scheduled rule with start <= end, the rule is in window exactly
\* when start <= current local minute-of-day <= end, both bounds inclusive.
C9_NormalWindowInclusive ==
    [][Served("proxy.config") =>
        \A id \in RuleIds :
            (/\ ActiveRule(id, ShopA, "country")
             /\ rules[id].scheduleEnabled
             /\ ValidZone(rules[id]) /\ DayAllowed(rules[id])
             /\ WellFormedWindow(rules[id])
             /\ StartMinute(rules[id]) <= EndMinute(rules[id]))
            => (Delivered(response', id) <=>
                   /\ StartMinute(rules[id]) <= LocalMinuteOfDay(rules[id])
                   /\ LocalMinuteOfDay(rules[id]) <= EndMinute(rules[id]))]_vars

\* a 09:00-17:00 rule has been delivered at 17:00 sharp, local time
C9_Witness ==
    /\ ActiveRule("r1", ShopA, "country")
    /\ rules["r1"].scheduleEnabled
    /\ rules["r1"].startTime = HM(9, 0) /\ rules["r1"].endTime = HM(17, 0)
    /\ rules["r1"].timezone = "Asia/Ho_Chi_Minh"
    /\ DayAllowed(rules["r1"])
    /\ LocalMinuteOfDay(rules["r1"]) = 17 * MinutesPerHour
    /\ response.status = 200 /\ Delivered(response, "r1")

\* C10: for a scheduled rule with start > end (overnight), the rule is in
\* window exactly when the local minute-of-day is >= start or <= end.
C10_OvernightWindow ==
    [][Served("proxy.config") =>
        \A id \in RuleIds :
            (/\ ActiveRule(id, ShopA, "country")
             /\ rules[id].scheduleEnabled
             /\ ValidZone(rules[id]) /\ DayAllowed(rules[id])
             /\ WellFormedWindow(rules[id])
             /\ StartMinute(rules[id]) > EndMinute(rules[id]))
            => (Delivered(response', id) <=>
                   \/ LocalMinuteOfDay(rules[id]) >= StartMinute(rules[id])
                   \/ LocalMinuteOfDay(rules[id]) <= EndMinute(rules[id]))]_vars

\* a 22:00-06:00 rule has been delivered at 06:00 sharp
C10_Witness ==
    /\ ActiveRule("r1", ShopA, "country")
    /\ rules["r1"].scheduleEnabled
    /\ rules["r1"].startTime = HM(22, 0) /\ rules["r1"].endTime = HM(6, 0)
    /\ ~Truthy(rules["r1"].timezone)
    /\ DayAllowed(rules["r1"])
    /\ now.hour = 6 /\ now.minute = 0
    /\ response.status = 200 /\ Delivered(response, "r1")

\* the day list names today's weekday on the wall clock of the rule's zone
DayListed(rule) ==
    /\ rule.daysOfWeek.kind = "csv"
    /\ \E i \in 1..Len(rule.daysOfWeek.items) :
          rule.daysOfWeek.items[i].text = DayStr(LocalDay(rule))

\* the time window alone lets the rule through now: no window, or a
\* well-formed window that holds the local minute of the day
TimeAdmits(rule) ==
    \/ ~TimeTruthy(rule.startTime)
    \/ ~TimeTruthy(rule.endTime)
    \/ /\ WellFormedWindow(rule)
       /\ IF StartMinute(rule) <= EndMinute(rule)
          THEN /\ StartMinute(rule) <= LocalMinuteOfDay(rule)
               /\ LocalMinuteOfDay(rule) <= EndMinute(rule)
          ELSE \/ LocalMinuteOfDay(rule) >= StartMinute(rule)
               \/ LocalMinuteOfDay(rule) <= EndMinute(rule)

C12_ScheduleFailureFailsOpen ==
    [][Served("proxy.config") =>
        \A id \in RuleIds :
            (/\ ActiveRule(id, ShopA, "country")
             /\ rules[id].scheduleEnabled
             /\ ~ValidZone(rules[id]))
            => /\ response'.status = 200
               /\ Delivered(response', id)]_vars

\* a Monday-to-Friday 09:00-17:00 rule with an unknown timezone was delivered on
\* a Sunday at 22:00, a day and an hour its schedule would exclude
C12_Witness ==
    /\ ActiveRule("r1", ShopA, "country")
    /\ rules["r1"].scheduleEnabled
    /\ rules["r1"].timezone = "Mars/Phobos"
    /\ rules["r1"].daysOfWeek = Csv(<<Item("1"), Item("2"), Item("3"), Item("4"), Item("5")>>)
    /\ rules["r1"].startTime = HM(9, 0) /\ rules["r1"].endTime = HM(17, 0)
    /\ now.day = 0 /\ now.hour = 22
    /\ response.endpoint = "proxy.config" /\ response.status = 200
    /\ Delivered(response, "r1")

----------------------------------------------------------------------------
(* The storefront side: IP matcher and rule resolution, as the design       *)
(* document states them (sections 4.2 and 4.3)                              *)

\* the 32-bit value of the dotted quads the model uses
IpNumber(text) ==
    CASE text = "10.0.0.1" -> 10 * 16777216 + 1
      [] text = "10.0.1.7" -> 10 * 16777216 + 256 + 7
      [] text = "100.64.0.9" -> 100 * 16777216 + 64 * 65536 + 9
      [] OTHER -> NaN

\* a pattern in CIDR notation: its network and prefix length
IsCidr(text) == text = "10.0.1.0/24"
CidrNet(text) == 10 * 16777216 + 256
CidrBits(text) == 24

RECURSIVE Pow2(_)
Pow2(n) == IF n = 0 THEN 1 ELSE 2 * Pow2(n - 1)

\* matches(ip, patternList): literal equality after trimming, or the same
\* network under the mask; anything else is skipped
matches(ip, patternList) ==
    \E i \in 1..Len(patternList) :
        LET text == Trim(patternList[i]).text
        IN  \/ text = ip
            \/ /\ IsCidr(text)
               /\ IpNumber(ip) # NaN
               /\ IpNumber(ip) \div Pow2(32 - CidrBits(text))
                    = CidrNet(text) \div Pow2(32 - CidrBits(text))

\* countryCodes contains countryCode, case-insensitively; an unknown country
\* never matches
countryMatches(countryCode, countries) ==
    /\ countryCode # Empty
    /\ \E i \in 1..Len(countries) : UpperOf(countries[i].text) = UpperOf(countryCode)

Allow == [action |-> "Allow", ruleId |-> Null]

\* the first entry of highest priority among the matching ones
pickRule(entries, hit) ==
    CHOOSE i \in hit :
        \A j \in hit : \/ entries[i].priority > entries[j].priority
                       \/ entries[i].priority = entries[j].priority /\ i <= j

\* resolve(ruleSet, context): the decision for the visitor the response
\* answers
resolve(resp, isBot) ==
    IF ~resp.enabled THEN Allow
    ELSE IF isBot /\ resp.excludeBots THEN Allow
    ELSE IF resp.isIPExcluded THEN Allow
    ELSE
        LET ipHit == {i \in 1..Len(resp.ipRules) :
                         matches(resp.visitorIP, resp.ipRules[i].ips)}
            countryHit == {i \in 1..Len(resp.rules) :
                         countryMatches(resp.detectedCountry, resp.rules[i].countries)}
        IN  IF ipHit # {}
            THEN LET r == resp.ipRules[pickRule(resp.ipRules, ipHit)]
                 IN  [action |-> IF r.ruleType = "block" THEN "Block" ELSE "Redirect",
                      ruleId |-> r.ruleId]
            ELSE IF countryHit # {}
            THEN LET r == resp.rules[pickRule(resp.rules, countryHit)]
                 IN  [action |-> IF r.ruleType = "block" THEN "Block"
                                 ELSE IF resp.mode = "popup" THEN "ShowPopup"
                                 ELSE "Redirect",
                      ruleId |-> r.ruleId]
            ELSE Allow

----------------------------------------------------------------------------
(* Specification of the usage gate: the plan column and the month's usage   *)
(* vary around the plan limits while config requests are served             *)

MaxOver == 1

Limits == {FreeLimit, PremiumLimit, PlusLimit}

\* usage counts kept in the model: the first few, and those around a limit
NearLimit(n) ==
    \/ n <= MaxOver
    \/ \E L \in Limits : L - 1 <= n /\ n <= L + MaxOver

UsageRow(total) ==
    [exists |-> TRUE, totalVisitors |-> total, redirected |-> total,
     blocked |-> 0, chargedVisitors |-> 0]

UsageSeeds == {NoRow, UsageRow(FreeLimit - 1), UsageRow(PlusLimit - 1)}

GatePlans == {Null, Empty, FREE_PLAN, PREMIUM_PLAN, PLUS_PLAN, "enterprise"}

CountryForm(priority, scheduled) ==
    [priority |-> priority, ruleType |-> "redirect",
     countryCodes |-> Csv(<<Item("de"), Padded("VN")>>),
     scheduleEnabled |-> scheduled,
     startTime |-> HM(9, 0), endTime |-> HM(17, 0),
     daysOfWeek |-> EmptyCsv, timezone |-> Empty]

IpForm(priority) ==
    [priority |-> priority, ruleType |-> "block",
     ipAddresses |-> Csv(<<Item("10.0.0.1"), Padded("10.0.1.0/24")>>)]

Noon == [day |-> 1, hour |-> 10, minute |-> 0, month |-> 1]

InitGate ==
    /\ \E plan \in GatePlans :
          settings = [NoSettings EXCEPT ![ShopA] = DefaultSettings(plan)]
    /\ rules = [NoRules EXCEPT !["r1"] = RuleRow(ShopA, "country", CountryForm(5, FALSE)),
                               !["r2"] = IpRuleRow(ShopA, IpForm(5))]
    /\ \E seed \in UsageSeeds : usage = [NoUsage EXCEPT ![ShopA][1] = seed]
    /\ now = Noon
    /\ intl = "h00"
    /\ response = NoResponse
    /\ subscription = [s \in Shops |-> Null]
    /\ billed = [m \in {1, 2} |-> 0]
    /\ proc = <<>>
    /\ NoAnalytics

GateRequest ==
    \E shop \in Shops \cup {Null}, sigOk \in BOOLEAN,
       failAt \in {"none", "settings", "usage"}, planDefault \in PlanDefaults :
        \E countryRules \in findManyActive(shop, {"country"}),
           ipRulesRaw \in findManyActive(shop, {"ip"}) :
            ProxyConfig(shop, "10.0.0.1", "DE", sigOk, failAt, planDefault,
                        countryRules, ipRulesRaw)

GateEvent ==
    /\ Quiet
    /\ \E shop \in {ShopA, Null}, type \in {"redirected", "visit", "bogus"} :
           /\ shop # Null => NearLimit(totalVisitorsOf(usage[shop][now.month]) + 1)
           /\ ProxyAnalytics(shop, BareEvent(type), "none", TRUE)

GateSettings ==
    /\ Quiet
    /\ \E mode \in {"popup", "disabled"} : SettingsAction(ShopA, mode, EmptyCsv, Null)

GateToggle ==
    /\ Quiet
    /\ \E isActive \in BOOLEAN : RulesToggle(ShopA, "r1", isActive)

\* the calendar month turns
NewMonth ==
    /\ Quiet
    /\ now.month = 1
    /\ now' = [now EXCEPT !.month = 2]
    /\ UNCHANGED <<settings, rules, usage, intl, response, subscription, billed, proc, analyticsTables, webhookState>>

NextGate ==
    GateRequest \/ GateEvent \/ GateSettings \/ GateToggle \/ NewMonth \/ Receive

SpecGate == InitGate /\ [][NextGate]_vars

\* C2: the config endpoint treats a shop as suspended (limitExceeded) if and
\* only if the stored plan is exactly the free plan and the current month's
\* totalVisitors is at least the free plan limit; any other plan value is
\* never suspended.
C2_SuspendedIffFreeAtLimit ==
    [][Served("proxy.config") =>
        /\ response'.status = 200 =>
              (response'.limitExceeded <=>
                  /\ settings'[response'.shop].currentPlan = FREE_PLAN
                  /\ usage[response'.shop][now.month].exists
                  /\ usage[response'.shop][now.month].totalVisitors >= FreeLimit)
        /\ response'.status # 200 => ~response'.limitExceeded]_vars

\* a free shop has been suspended with usage exactly at the limit
C2_Witness ==
    /\ response.endpoint = "proxy.config" /\ response.shop = ShopA
    /\ response.limitExceeded
    /\ settings[ShopA].currentPlan = FREE_PLAN
    /\ usage[ShopA][now.month].exists
    /\ usage[ShopA][now.month].totalVisitors = FreeLimit

\* C3: whenever the shop is suspended by the usage gate the config response
\* is an Allow outcome: enabled = false, no country rules and no IP rules,
\* whatever active rules the shop has.
C3_SuspendedResponseIsAllow ==
    [][Served("proxy.config") =>
        (response'.limitExceeded =>
            /\ "enabled" \in response'.keys /\ ~response'.enabled
            /\ response'.rules = <<>> /\ response'.ipRules = <<>>)]_vars

\* a suspended response went out while the shop had an active country rule
\* and an active IP rule
C3_Witness ==
    /\ response.endpoint = "proxy.config" /\ response.shop = ShopA
    /\ response.limitExceeded
    /\ settings[ShopA].currentPlan = FREE_PLAN
    /\ usage[ShopA][now.month].exists
    /\ usage[ShopA][now.month].totalVisitors >= FreeLimit
    /\ ActiveRule("r1", ShopA, "country") /\ ActiveRule("r2", ShopA, "ip")

----------------------------------------------------------------------------
(* Specification of rule delivery: the admin of one shop creates, updates,  *)
(* toggles and deletes rules while both config endpoints are served         *)

VisitorIPs == {"10.0.0.1", "10.0.1.7", "100.64.0.9"}
FormPriorities == {5, 10}
AdminRuleIds == {"r1", "r2"}

Morning == [day |-> 1, hour |-> 10, minute |-> 0, month |-> 1]
Night == [day |-> 1, hour |-> 22, minute |-> 0, month |-> 1]

InitRules ==
    /\ settings = [NoSettings EXCEPT ![ShopA] = DefaultSettings(PREMIUM_PLAN)]
    /\ rules = [NoRules EXCEPT !["r3"] = RuleRow(ShopB, "country", CountryForm(10, FALSE))]
    /\ usage = NoUsage
    /\ now \in {Morning, Night}
    /\ intl = "h00"
    /\ response = NoResponse
    /\ subscription = [s \in Shops |-> Null]
    /\ billed = [m \in {1, 2} |-> 0]
    /\ proc = <<>>
    /\ NoAnalytics

RulesProxyRequest ==
    \E visitorIP \in VisitorIPs, detectedCountry \in {"DE", Empty} :
        \E countryRules \in findManyActive(ShopA, {"country"}),
           ipRulesRaw \in findManyActive(ShopA, {"ip"}) :
            ProxyConfig(ShopA, visitorIP, detectedCountry, TRUE, "none", Null,
                        countryRules, ipRulesRaw)

RulesApiRequest ==
    \E visitorIP \in VisitorIPs, failAt \in {"none", "settings"} :
        \E allRules \in findManyActive(ShopA, {"country", "ip"}) :
            ApiGeolocation(ShopA, visitorIP, failAt, allRules)

AdminCreate ==
    /\ Quiet
    /\ \E id \in AdminRuleIds, priority \in FormPriorities, scheduled \in BOOLEAN :
           RulesCreate(ShopA, id, CountryForm(priority, scheduled))

AdminIpCreate ==
    /\ Quiet
    /\ \E id \in AdminRuleIds, priority \in FormPriorities :
           IpRulesCreate(ShopA, id, IpForm(priority))

AdminUpdate ==
    /\ Quiet
    /\ \E id \in AdminRuleIds, priority \in FormPriorities, scheduled \in BOOLEAN :
           RulesUpdate(ShopA, id, CountryForm(priority, scheduled))

AdminToggle ==
    /\ Quiet
    /\ \E id \in AdminRuleIds, isActive \in BOOLEAN : RulesToggle(ShopA, id, isActive)

AdminDelete ==
    /\ Quiet
    /\ \E ids \in SUBSET AdminRuleIds : ids # {} /\ RulesDelete(ShopA, ids)

AdminSettings ==
    /\ Quiet
    /\ \E mode \in {"popup", "auto_redirect", "disabled"},
          excludedIPs \in {EmptyCsv, Csv(<<Padded("10.0.0.1")>>)} :
           SettingsAction(ShopA, mode, excludedIPs, Null)

\* morning turns to night and back
DayNight ==
    /\ Quiet
    /\ now' = IF now = Morning THEN Night ELSE Morning
    /\ UNCHANGED <<settings, rules, usage, intl, response, subscription, billed, proc, analyticsTables, webhookState>>

NextRules ==
    \/ RulesProxyRequest \/ RulesApiRequest
    \/ AdminCreate \/ AdminIpCreate \/ AdminUpdate \/ AdminToggle \/ AdminDelete
    \/ AdminSettings \/ DayNight \/ Receive

SpecRules == InitRules /\ [][NextRules]_vars

----------------------------------------------------------------------------
(* Properties of rule delivery *)

\* the schedule evaluator of the design document (section 4.1), at now
InWindow(rule) ==
    \/ ~rule.scheduleEnabled
    \/ ~ValidZone(rule)
    \/ /\ DayAllowed(rule)
       /\ \/ ~WellFormedWindow(rule)
          \/ IF StartMinute(rule) <= EndMinute(rule)
             THEN /\ StartMinute(rule) <= LocalMinuteOfDay(rule)
                  /\ LocalMinuteOfDay(rule) <= EndMinute(rule)
             ELSE \/ LocalMinuteOfDay(rule) >= StartMinute(rule)
                  \/ LocalMinuteOfDay(rule) <= EndMinute(rule)

IpRuleMatches(rule, ip) == matches(ip, Split(rule.ipAddresses))
CountryRuleMatches(rule, code) == countryMatches(code, Split(rule.countryCodes))

\* the answer carries the rule lists
FullConfig(resp) == resp.status = 200 /\ "rules" \in resp.keys

\* the stored rules of a category that are active, in window and match the
\* visitor the answer is for
Applicable(resp, matchType) ==
    {id \in RuleIds :
        /\ ActiveRule(id, resp.shop, matchType)
        /\ InWindow(rules[id])
        /\ IF matchType = "ip" THEN IpRuleMatches(rules[id], resp.visitorIP)
           ELSE CountryRuleMatches(rules[id], resp.detectedCountry)}

SortedDesc(entries) ==
    \A i, j \in 1..Len(entries) : i < j => entries[i].priority >= entries[j].priority

\* positions of the delivered entries that match the visitor
HitIP(resp) == {i \in 1..Len(resp.ipRules) : matches(resp.visitorIP, resp.ipRules[i].ips)}
HitCountry(resp) ==
    {i \in 1..Len(resp.rules) : countryMatches(resp.detectedCountry, resp.rules[i].countries)}

First(hit) == CHOOSE i \in hit : \A j \in hit : i <= j

\* the entry is an applicable rule of highest priority
IsBest(entry, applicable) ==
    /\ entry.ruleId \in applicable
    /\ \A id \in applicable : rules[id].priority <= entry.priority

\* C4: when the shop's settings mode is disabled, every config response
\* reports enabled = false, even when active, in-window rules match.
C4_DisabledModeNeverEnabled ==
    [][(Served("proxy.config") \/ Served("api.geolocation")) =>
        ((/\ response'.shop # Null
          /\ settings'[response'.shop].exists
          /\ settings'[response'.shop].mode = "disabled")
         => /\ ~response'.enabled
            /\ response'.status = 200 => "enabled" \in response'.keys)]_vars

\* a disabled shop was answered with a matching, in-window country rule and
\* a matching IP rule in the lists
C4_Witness ==
    /\ response.endpoint = "proxy.config" /\ FullConfig(response)
    /\ settings[ShopA].mode = "disabled"
    /\ ~response.enabled
    /\ Applicable(response, "country") # {} /\ HitCountry(response) # {}
    /\ Applicable(response, "ip") # {} /\ HitIP(response) # {}

\* the gates before rule evaluation let the visitor through to the rules
PastGates(resp) == FullConfig(resp) /\ resp.enabled /\ ~resp.isIPExcluded

C6_HighestPrioritySelected ==
    [][Served("proxy.config") =>
        (FullConfig(response') =>
            /\ SortedDesc(response'.rules) /\ SortedDesc(response'.ipRules)
            /\ Applicable(response', "country") # {} =>
                  /\ HitCountry(response') # {}
                  /\ IsBest(response'.rules[First(HitCountry(response'))],
                            Applicable(response', "country"))
            /\ Applicable(response', "ip") # {} =>
                  /\ HitIP(response') # {}
                  /\ IsBest(response'.ipRules[First(HitIP(response'))],
                            Applicable(response', "ip")))]_vars

\* C7: every rule delivered to the storefront, in the country list and in
\* the IP list alike, is active and inside its schedule window at the time
\* of the request.
C7_DeliveredRulesInWindow ==
    [][(Served("proxy.config") \/ Served("api.geolocation")) =>
        /\ \A i \in 1..Len(response'.rules) :
              /\ ActiveRule(response'.rules[i].ruleId, response'.shop, "country")
              /\ InWindow(rules[response'.rules[i].ruleId])
        /\ \A i \in 1..Len(response'.ipRules) :
              /\ ActiveRule(response'.ipRules[i].ruleId, response'.shop, "ip")
              /\ InWindow(rules[response'.ipRules[i].ruleId])]_vars

----------------------------------------------------------------------------
(* Overage charging: checkAndChargeOverage (app layout loader) and the      *)
(* charging block of the dashboard loader, one step per awaited call        *)

\* the invocations of the charging code, one loader request each
NumProcs == 2

ProcIds == 1..NumProcs

Idle ==
    [kind |-> "none", pc |-> "idle", hasProPlan |-> FALSE,
     planLimit |-> 0, yearMonth |-> 0,
     currentUsage |-> 0, chargedVisitors |-> 0, overageVisitors |-> 0,
     txCharged |-> 0]

billingFrame ==
    UNCHANGED <<settings, rules, now, intl, response, subscription, analyticsTables, webhookState>>

\* the invocation moves on; when it returns its locals are gone
Goto(p, pc) ==
    proc' = [proc EXCEPT ![p] =
                IF pc \in {"done", "failed"}
                THEN [Idle EXCEPT !.kind = proc[p].kind, !.pc = pc]
                ELSE [@ EXCEPT !.pc = pc]]

\* billingConfig.appSubscriptions[0]?.name || FREE_PLAN
subscriptionName(shop) == IF subscription[shop] # Null THEN subscription[shop] ELSE FREE_PLAN

\* a loader starts: the layout loader calls checkAndChargeOverage, the
\* dashboard loader runs its own block
StartCharging(p, kind) ==
    /\ proc[p].pc = "idle"
    /\ proc' = [proc EXCEPT ![p] = [Idle EXCEPT !.kind = kind, !.pc = "check"]]
    /\ billingFrame /\ UNCHANGED <<usage, billed>>

\* await billing.check(...): hasActivePayment, plan name, plan limit
BillingCheck(p, shop, ok) ==
    /\ proc[p].pc = "check"
    /\ billingFrame /\ UNCHANGED <<usage, billed>>
    /\ IF ~ok THEN Goto(p, "done")
       ELSE IF proc[p].kind = "layout" /\ subscription[shop] = Null
       THEN Goto(p, "done")     \* No overage for free plans
       ELSE proc' = [proc EXCEPT ![p].pc = "read",
                                 ![p].hasProPlan = subscription[shop] # Null,
                                 ![p].planLimit = PLAN_LIMITS(subscriptionName(shop)),
                                 ![p].yearMonth = now.month]

\* currentUsage - planLimit - chargedVisitors
overageIgnoringCharged(currentUsage, planLimit, chargedVisitors) ==
    currentUsage - planLimit

overage(currentUsage, planLimit, chargedVisitors) ==
    currentUsage - planLimit - chargedVisitors

\* checkAndChargeOverage: await monthlyUsage.findUnique, then the overage
LayoutRead(p, shop) ==
    /\ proc[p].pc = "read" /\ proc[p].kind = "layout"
    /\ billingFrame /\ UNCHANGED <<usage, billed>>
    /\ LET row == usage[shop][proc[p].yearMonth]
           currentUsage == totalVisitorsOf(row)
           chargedVisitors == chargedVisitorsOf(row)
           overageVisitors == overage(currentUsage, proc[p].planLimit, chargedVisitors)
       IN  IF currentUsage <= proc[p].planLimit \/ overageVisitors <= 0
           THEN Goto(p, "done")
           ELSE proc' = [proc EXCEPT ![p].pc = "charge",
                                     ![p].currentUsage = currentUsage,
                                     ![p].chargedVisitors = chargedVisitors,
                                     ![p].overageVisitors = overageVisitors]

\* dashboard loader: the first await monthlyUsage.findUnique
DashboardRead(p, shop) ==
    /\ proc[p].pc = "read" /\ proc[p].kind = "dashboard"
    /\ billingFrame /\ UNCHANGED <<usage, billed>>
    /\ LET row == usage[shop][proc[p].yearMonth]
           currentUsage == totalVisitorsOf(row)
       IN  IF proc[p].hasProPlan /\ currentUsage > proc[p].planLimit
           THEN proc' = [proc EXCEPT ![p].pc = "recheck",
                                     ![p].currentUsage = currentUsage,
                                     ![p].chargedVisitors = chargedVisitorsOf(row)]
           ELSE Goto(p, "done")

\* x || y on numbers: 0 is falsy
OrElse(x, y) == IF x # 0 THEN x ELSE y

\* dashboard loader: "DOUBLE CHECK", the second findUnique and the overage
DashboardRecheck(p, shop) ==
    /\ proc[p].pc = "recheck"
    /\ billingFrame /\ UNCHANGED <<usage, billed>>
    /\ LET row == usage[shop][proc[p].yearMonth]
           latestTotal == OrElse(totalVisitorsOf(row), proc[p].currentUsage)
           latestCharged == OrElse(chargedVisitorsOf(row), proc[p].chargedVisitors)
           overageVisitors == overage(latestTotal, proc[p].planLimit, latestCharged)
       IN  IF overageVisitors > 0
           THEN proc' = [proc EXCEPT ![p].pc = "charge",
                                     ![p].overageVisitors = overageVisitors]
           ELSE Goto(p, "done")

\* where the invocation stands after createUsageRecord has thrown: the catch
\* logs the error and the invocation is over, "failed" being the return that
\* left this log line
afterFailedChargeUpdates(kind) == IF kind = "layout" THEN "txRead" ELSE "update"

afterFailedCharge(kind) == "failed"

\* await billing.createUsageRecord(...): billed on success; a failure is
\* caught and logged
CreateUsageRecord(p, ok) ==
    /\ proc[p].pc = "charge"
    /\ billingFrame /\ UNCHANGED usage
    /\ IF ok
       THEN /\ billed' = [billed EXCEPT ![proc[p].yearMonth] = @ + proc[p].overageVisitors]
            /\ Goto(p, IF proc[p].kind = "layout" THEN "txRead" ELSE "update")
       ELSE /\ UNCHANGED billed
            /\ Goto(p, afterFailedCharge(proc[p].kind))

\* checkAndChargeOverage, inside $transaction: tx.monthlyUsage.findUnique
LayoutTxRead(p, shop) ==
    /\ proc[p].pc = "txRead"
    /\ billingFrame /\ UNCHANGED <<usage, billed>>
    /\ LET current == usage[shop][proc[p].yearMonth]
       IN  IF current.exists
           THEN proc' = [proc EXCEPT ![p].pc = "txWrite",
                                     ![p].txCharged = current.chargedVisitors]
           ELSE Goto(p, "done")

\* checkAndChargeOverage, inside $transaction: tx.monthlyUsage.update with
\* chargedVisitors: current.chargedVisitors + overageVisitors
LayoutTxWrite(p, shop) ==
    /\ proc[p].pc = "txWrite"
    /\ billingFrame /\ UNCHANGED billed
    /\ usage' = [usage EXCEPT ![shop][proc[p].yearMonth].chargedVisitors =
                     proc[p].txCharged + proc[p].overageVisitors]
    /\ Goto(p, "done")

\* chargedVisitors: { increment: overageVisitors }
incrementDropped(value, by) == value

increment(value, by) == value + by

\* dashboard loader: monthlyUsage.update with chargedVisitors: { increment }
DashboardUpdate(p, shop) ==
    /\ proc[p].pc = "update"
    /\ billingFrame /\ UNCHANGED billed
    /\ usage' = [usage EXCEPT ![shop][proc[p].yearMonth].chargedVisitors =
                     increment(@, proc[p].overageVisitors)]
    /\ Goto(p, "done")

----------------------------------------------------------------------------
(* Specification of overage charging for one shop on a paid plan or none,   *)
(* with visitors still arriving                                             *)

MaxBacklog == 50

\* MonthlyUsage rows of the month: none, at the premium limit, and past it
\* with part of the overage already charged
BillingSeeds ==
    {NoRow, UsageRow(PremiumLimit - 1), UsageRow(PremiumLimit)}
    \cup {[UsageRow(PremiumLimit + MaxBacklog) EXCEPT !.chargedVisitors = c] :
              c \in {0, 20, MaxBacklog}}

InitBilling ==
    /\ settings = [NoSettings EXCEPT ![ShopA] = DefaultSettings(Null)]
    /\ rules = NoRules
    /\ \E seed \in BillingSeeds :
          usage = [NoUsage EXCEPT ![ShopA][1] = seed]
    /\ now = Noon
    /\ intl = "h00"
    /\ response = NoResponse
    /\ \E plan \in {Null, PREMIUM_PLAN, PLUS_PLAN} :
          subscription = [s \in Shops |-> IF s = ShopA THEN plan ELSE Null]
    /\ billed = [m \in {1, 2} |-> 0]
    /\ proc = [p \in ProcIds |-> Idle]
    /\ NoAnalytics

BillingStart == Quiet /\ \E p \in ProcIds, kind \in {"layout", "dashboard"} : StartCharging(p, kind)
BillingCheckStep == Quiet /\ \E p \in ProcIds, ok \in BOOLEAN : BillingCheck(p, ShopA, ok)
LayoutReadStep == Quiet /\ \E p \in ProcIds : LayoutRead(p, ShopA)
DashboardReadStep == Quiet /\ \E p \in ProcIds : DashboardRead(p, ShopA)
DashboardRecheckStep == Quiet /\ \E p \in ProcIds : DashboardRecheck(p, ShopA)
CreateUsageRecordStep == Quiet /\ \E p \in ProcIds, ok \in BOOLEAN : CreateUsageRecord(p, ok)
LayoutTxReadStep == Quiet /\ \E p \in ProcIds : LayoutTxRead(p, ShopA)
LayoutTxWriteStep == Quiet /\ \E p \in ProcIds : LayoutTxWrite(p, ShopA)
DashboardUpdateStep == Quiet /\ \E p \in ProcIds : DashboardUpdate(p, ShopA)

BillingVisitor ==
    /\ NearLimit(totalVisitorsOf(usage[ShopA][now.month]) + 1)
    /\ Quiet
    /\ ProxyAnalytics(ShopA, BareEvent("redirected"), "none", TRUE)

NextBilling ==
    \/ BillingStart \/ BillingCheckStep
    \/ LayoutReadStep \/ DashboardReadStep \/ DashboardRecheckStep
    \/ CreateUsageRecordStep
    \/ LayoutTxReadStep \/ LayoutTxWriteStep \/ DashboardUpdateStep
    \/ BillingVisitor \/ Receive

SpecBilling == InitBilling /\ [][NextBilling]_vars

Max0(n) == IF n > 0 THEN n ELSE 0

\* C1: for any interleaving of overage-charging invocations for the same
\* shop and month, the visitor units billed through createUsageRecord never
\* exceed max(0, totalVisitors - planLimit): no overage unit is charged twice.
C1_NoDoubleCharge ==
    \A m \in {1, 2} :
        billed[m] <= Max0(totalVisitorsOf(usage[ShopA][m])
                            - PLAN_LIMITS(subscriptionName(ShopA)))

\* what is due for the month by the persisted row: the overage not yet charged
Due(shop, m) ==
    Max0(totalVisitorsOf(usage[shop][m]) - PLAN_LIMITS(subscriptionName(shop))
           - chargedVisitorsOf(usage[shop][m]))

\* the invocation reads the row in this step: it ends, goes on to charge,
\* or (the dashboard loader's first read) goes on to read again
Decides(p) ==
    /\ proc[p].pc \in {"read", "recheck"}
    /\ proc'[p].pc # proc[p].pc

\* C13: for a shop on a paid plan, an invocation that reads the usage row
\* goes on to bill exactly max(0, totalVisitors - planLimit - chargedVisitors)
\* of the persisted row, createUsageRecord bills that number of units, and
\* nothing is billed when the value is 0.
C13_OverageFormula ==
    [][\A p \in ProcIds :
        /\ (subscription[ShopA] # Null /\ Decides(p)) =>
              /\ billed' = billed
              /\ proc'[p].pc = "done" => Due(ShopA, proc[p].yearMonth) = 0
              /\ proc'[p].pc = "charge" =>
                    /\ Due(ShopA, proc[p].yearMonth) > 0
                    /\ proc'[p].overageVisitors = Due(ShopA, proc[p].yearMonth)
        /\ (proc[p].pc = "charge" /\ proc'[p].pc \in {"txRead", "update"}) =>
              billed'[proc[p].yearMonth] - billed[proc[p].yearMonth]
                  = proc[p].overageVisitors
        /\ (billed' # billed) =>
              \E q \in ProcIds : proc[q].pc = "charge" /\ proc'[q].pc \in {"txRead", "update"}
      ]_vars

\* premium, usage 800, limit 750, nothing charged yet: one invocation has
\* billed 50 units
C13_Witness ==
    /\ subscription[ShopA] = PREMIUM_PLAN
    /\ totalVisitorsOf(usage[ShopA][1]) = PremiumLimit + MaxBacklog
    /\ billed[1] = MaxBacklog
    /\ \E p \in ProcIds : /\ proc[p].pc \in {"txRead", "update"}
                          /\ proc[p].overageVisitors = MaxBacklog
                          /\ proc[p].chargedVisitors = 0

----------------------------------------------------------------------------
(* Specification of analytics ingestion: events of every type, with and     *)
(* without country, rule and visitor IP, for a registered shop, an unknown  *)
(* shop and no shop, one request at a time                                  *)

MaxRecorded == 2

EventTypes == VALID_TYPES \cup {"bogus", Null}

Events ==
    [type : EventTypes, countryCode : {Null, "DE"}, ruleId : {Null, "r1"},
     visitorIP : {Null, "10.0.0.1"}]

\* rows a table holds for a key, all counters added up
CountryCount(row) ==
    IF row.exists THEN row.visitors + row.popupShown + row.redirected + row.blocked ELSE 0

RuleCount(row) ==
    IF row.exists
    THEN row.seen + row.clickedYes + row.autoRedirected + row.clickedNo
           + row.dismissed + row.blocked
    ELSE 0

\* everything recorded for the shop today, all tables added up
Recorded(shop) ==
    visitorLog[shop].fresh + totalVisitorsOf(usage[shop][now.month])
      + CountryCount(analyticsCountry[<<shop, Today, "DE">>])
      + RuleCount(analyticsRule[<<shop, Today, "r1">>])

InitAnalytics ==
    /\ settings = [NoSettings EXCEPT ![ShopA] = DefaultSettings(Null)]
    /\ rules = NoRules
    /\ usage = NoUsage
    /\ now = Noon
    /\ intl = "h00"
    /\ response = NoResponse
    /\ subscription = [s \in Shops |-> Null]
    /\ billed = [m \in {1, 2} |-> 0]
    /\ proc = <<>>
    /\ \E stale \in {0, 1} :
          visitorLog = [NoVisitorLog EXCEPT ![ShopA].old = stale]
    /\ analyticsCountry = NoAnalyticsCountry
    /\ analyticsRule = NoAnalyticsRule
    /\ lastCleanupDate \in {NeverCleaned, [month |-> Noon.month, day |-> Noon.day]}
    /\ session = Shops
    /\ events = <<>>
    /\ upsertNative = TRUE
    /\ NoProcessState

\* failAt names a statement the request gets to run
Runs(shop, event, failAt) ==
    CASE failAt = "none" -> TRUE
      [] failAt = "settings" -> shop # Null /\ event.type # Null
      [] failAt = "log" -> accepted(shop, event.type) /\ Truthy(event.visitorIP)
      [] failAt = "country" ->
            accepted(shop, event.type) /\ Truthy(event.countryCode)
              /\ event.type \in CountryTypes
      [] failAt = "rule" ->
            accepted(shop, event.type) /\ Truthy(event.ruleId) /\ event.type \in RuleTypes
      [] failAt = "usage" ->
            accepted(shop, event.type) /\ event.type \in RedirectTypes \cup BlockTypes

\* requests of the registered shop carry every kind of event; the unknown
\* shop and the request without a shop parameter send a few
AnalyticsRequest ==
    /\ Quiet
    /\ \E shop \in {ShopA, ShopB, Null}, event \in Events, failAt \in FailPoints :
          /\ shop = ShopA => Recorded(shop) < MaxRecorded
          /\ shop # ShopA => /\ event.type \in {"redirected", "visit", "bogus"}
                             /\ Truthy(event.visitorIP) /\ Truthy(event.countryCode)
                             /\ Truthy(event.ruleId)
          /\ Runs(shop, event, failAt)
          /\ ProxyAnalytics(shop, event, failAt, TRUE)

NextAnalytics == AnalyticsRequest \/ Receive

SpecAnalytics == InitAnalytics /\ [][NextAnalytics]_vars

\* no VisitorLog row is written in this step
NoLogWritten ==
    \A s \in Shops : /\ visitorLog'[s].fresh = visitorLog[s].fresh
                     /\ visitorLog'[s].old <= visitorLog[s].old

\* C14: the analytics endpoint answers an event for a shop without a
\* Settings row with 401 and an event whose type is outside the whitelist
\* with 400, and a rejected event writes no VisitorLog row and changes no
\* AnalyticsCountry, AnalyticsRule or MonthlyUsage row.
C14_RejectedEventChangesNothing ==
    [][Served("proxy.analytics") =>
        LET r == response'
            asked == r.shop # Null /\ r.type # Null /\ r.status # 500
        IN  /\ (asked /\ ~settings[r.shop].exists) => r.status = 401
            /\ (asked /\ settings[r.shop].exists /\ r.type \notin VALID_TYPES)
                   => r.status = 400
            /\ r.status \in {400, 401} =>
                   /\ NoLogWritten
                   /\ analyticsCountry' = analyticsCountry
                   /\ analyticsRule' = analyticsRule
                   /\ usage' = usage]_vars

\* an event of a type outside the whitelist, sent for the registered shop,
\* was answered 400 and nothing has been recorded
C14_Witness ==
    /\ response.endpoint = "proxy.analytics"
    /\ response.shop = ShopA /\ response.type = "bogus"
    /\ response.status = 400
    /\ visitorLog[ShopA].fresh = 0
    /\ analyticsCountry = NoAnalyticsCountry
    /\ analyticsRule = NoAnalyticsRule
    /\ usage = NoUsage

\* C15: an accepted event of type redirected, auto_redirected, blocked,
\* ip_redirected or ip_blocked raises the shop's current-month totalVisitors
\* by exactly 1, creating the row at 1 if absent and touching no other
\* MonthlyUsage row; an accepted event of type visit, popup_shown,
\* clicked_no or dismissed leaves the MonthlyUsage table unchanged.
C15_QualifyingEventCountsOnce ==
    [][(Served("proxy.analytics") /\ response'.status = 200) =>
        LET r == response' IN
        IF r.type \in {"redirected", "auto_redirected", "blocked", "ip_redirected",
                       "ip_blocked"}
        THEN /\ usage'[r.shop][now.month].exists
             /\ usage'[r.shop][now.month].totalVisitors
                    = totalVisitorsOf(usage[r.shop][now.month]) + 1
             /\ \A s \in Shops, m \in {1, 2} :
                    <<s, m>> # <<r.shop, now.month>> => usage'[s][m] = usage[s][m]
        ELSE usage' = usage]_vars

\* the first event of the month, of type ip_blocked, was accepted and the
\* row now stands at 1
C15_Witness ==
    /\ response.endpoint = "proxy.analytics" /\ response.status = 200
    /\ response.shop = ShopA /\ response.type = "ip_blocked"
    /\ usage[ShopA][1].exists
    /\ usage[ShopA][1].totalVisitors = 1
    /\ usage[ShopA][1].blocked = 1

----------------------------------------------------------------------------
(* Specification of concurrent analytics ingestion: several requests for    *)
(* one shop are in flight together and every await of the action is a       *)
(* step. The events carry their type alone, so that the statements a        *)
(* request runs are cleanupOldLogs, settings.findUnique and                 *)
(* monthlyUsage.upsert.                                                     *)

NumEvents == 2
EventIds == 1 .. NumEvents

\* a request: where it stands in the action, the type of its event, and what
\* the read of a two-statement upsert found
IdleEvent == [pc |-> "idle", type |-> Null, found |-> FALSE]

usageFrame ==
    <<settings, rules, now, intl, response, subscription, billed, proc,
      analyticsCountry, analyticsRule, session, upsertNative, processState>>

CountedTypes == RedirectTypes \cup BlockTypes

\* the request arrives: the cleanup, the checks of shop, settings and type;
\* an event of a counted type goes on to the upsert
EventArrive(e, shop, type) ==
    /\ events[e].pc = "idle"
    /\ LET cleaned == cleanupOldLogs(TRUE) IN
       /\ visitorLog' = cleaned.logs
       /\ lastCleanupDate' = cleaned.last
    /\ events' = [events EXCEPT ![e] =
          [pc |-> IF ~accepted(shop, type) THEN "rejected"
                  ELSE IF type \in CountedTypes THEN "upsert"
                  ELSE "done",
           type |-> type, found |-> FALSE]]
    /\ UNCHANGED <<usage>>
    /\ UNCHANGED usageFrame

\* monthlyUsage.upsert handed to the database as one
\* INSERT .. ON CONFLICT .. DO UPDATE statement
UpsertInDatabase(e, shop) ==
    /\ events[e].pc = "upsert"
    /\ upsertNative
    /\ usage' = [usage EXCEPT ![shop][now.month] = monthlyUsageUpsert(@, events[e].type)]
    /\ events' = [events EXCEPT ![e].pc = "done"]
    /\ UNCHANGED <<visitorLog, lastCleanupDate>>
    /\ UNCHANGED usageFrame

\* monthlyUsage.upsert run by the client: first the read of the row
UpsertRead(e, shop) ==
    /\ events[e].pc = "upsert"
    /\ ~upsertNative
    /\ events' = [events EXCEPT ![e].pc = "write",
                                ![e].found = usage[shop][now.month].exists]
    /\ UNCHANGED <<usage, visitorLog, lastCleanupDate>>
    /\ UNCHANGED usageFrame

\* then UPDATE .. SET totalVisitors = totalVisitors + 1 for a row that was
\* found, INSERT for one that was not; an INSERT that meets the row of
\* another request breaks the unique index on (shop, yearMonth), the upsert
\* throws and the action's catch answers 500
UpsertWrite(e, shop) ==
    /\ events[e].pc = "write"
    /\ LET row == usage[shop][now.month]
           clash == ~events[e].found /\ row.exists
       IN  /\ usage' = IF clash THEN usage
                       ELSE [usage EXCEPT ![shop][now.month] =
                                monthlyUsageUpsert(@, events[e].type)]
           /\ events' = [events EXCEPT ![e].pc = IF clash THEN "failed" ELSE "done"]
    /\ UNCHANGED <<visitorLog, lastCleanupDate>>
    /\ UNCHANGED usageFrame

\* the response has gone out and the next request uses the slot
EventLeave(e) ==
    /\ events[e].pc \in {"done", "failed", "rejected"}
    /\ events' = [events EXCEPT ![e] = IdleEvent]
    /\ UNCHANGED <<usage, visitorLog, lastCleanupDate>>
    /\ UNCHANGED usageFrame

MaxCounted == 3

InitUsage ==
    /\ settings = [NoSettings EXCEPT ![ShopA] = DefaultSettings(Null)]
    /\ rules = NoRules
    /\ usage \in {NoUsage, [NoUsage EXCEPT ![ShopA][1] = UsageRow(1)]}
    /\ now = Noon
    /\ intl = "h00"
    /\ response = NoResponse
    /\ subscription = [s \in Shops |-> Null]
    /\ billed = [m \in {1, 2} |-> 0]
    /\ proc = <<>>
    /\ visitorLog = NoVisitorLog
    /\ analyticsCountry = NoAnalyticsCountry
    /\ analyticsRule = NoAnalyticsRule
    /\ lastCleanupDate = NeverCleaned
    /\ session = Shops
    /\ events = [e \in EventIds |-> IdleEvent]
    /\ upsertNative \in BOOLEAN
    /\ NoProcessState

UsageArrives ==
    \E e \in EventIds, shop \in Shops, type \in {"redirected", "ip_blocked", "visit", "bogus"} :
        /\ totalVisitorsOf(usage[ShopA][now.month]) < MaxCounted
        /\ EventArrive(e, shop, type)

UsageUpsertsInDatabase == \E e \in EventIds : UpsertInDatabase(e, ShopA)
UsageReads == \E e \in EventIds : UpsertRead(e, ShopA)
UsageWrites == \E e \in EventIds : UpsertWrite(e, ShopA)
UsageLeaves == \E e \in EventIds : EventLeave(e)

NextUsage ==
    \/ UsageArrives
    \/ UsageUpsertsInDatabase
    \/ UsageReads
    \/ UsageWrites
    \/ UsageLeaves

SpecUsage == InitUsage /\ [][NextUsage]_vars

----------------------------------------------------------------------------
(* Specification of rule ownership: both shops own rules, and the admin     *)
(* session of one shop submits update, toggle and delete for every rule id, *)
(* its own and the other shop's, through the actions of app.rules and       *)
(* app.ip-rules and through the action that names the shop in its where.    *)

\* update of the rules action whose where is { id, shop }: a row of another
\* shop is not found and the update throws
RulesUpdateScoped(shop, id, form) ==
    IF rules[id].exists /\ rules[id].shop = shop
    THEN RulesUpdate(shop, id, form)
    ELSE ruleFrame /\ UNCHANGED rules

RulesToggleScoped(shop, id, isActive) ==
    IF rules[id].exists /\ rules[id].shop = shop
    THEN RulesToggle(shop, id, isActive)
    ELSE ruleFrame /\ UNCHANGED rules

\* deleteMany({ where: { id: { in: ids }, shop } })
RulesDeleteScoped(shop, ids) ==
    RulesDelete(shop, {id \in ids : rules[id].exists /\ rules[id].shop = shop})

InitTenancy ==
    /\ settings = [s \in Shops |-> DefaultSettings(PREMIUM_PLAN)]
    /\ rules = [NoRules EXCEPT
                  !["r1"] = RuleRow(ShopA, "country", CountryForm(10, FALSE)),
                  !["r2"] = IpRuleRow(ShopB, IpForm(10)),
                  !["r3"] = RuleRow(ShopB, "country", CountryForm(10, FALSE))]
    /\ usage = NoUsage
    /\ now = Noon
    /\ intl = "h00"
    /\ response = NoResponse
    /\ subscription = [s \in Shops |-> Null]
    /\ billed = [m \in {1, 2} |-> 0]
    /\ proc = <<>>
    /\ NoAnalytics

TenantUpdate ==
    \E id \in RuleIds : RulesUpdate(ShopA, id, CountryForm(5, TRUE))

TenantIpUpdate ==
    \E id \in RuleIds : IpRulesUpdate(ShopA, id, IpForm(5))

TenantToggle ==
    \E id \in RuleIds, isActive \in BOOLEAN : RulesToggle(ShopA, id, isActive)

TenantDelete ==
    \E ids \in SUBSET RuleIds : ids # {} /\ RulesDelete(ShopA, ids)

TenantUpdateScoped ==
    \E id \in RuleIds : RulesUpdateScoped(ShopA, id, CountryForm(5, TRUE))

TenantToggleScoped ==
    \E id \in RuleIds, isActive \in BOOLEAN : RulesToggleScoped(ShopA, id, isActive)

TenantDeleteScoped ==
    \E ids \in SUBSET RuleIds : ids # {} /\ RulesDeleteScoped(ShopA, ids)

TenantCreate ==
    \E id \in RuleIds : RulesCreate(ShopA, id, CountryForm(10, FALSE))

NextTenancy ==
    \/ TenantUpdate
    \/ TenantIpUpdate
    \/ TenantToggle
    \/ TenantDelete
    \/ TenantUpdateScoped
    \/ TenantToggleScoped
    \/ TenantDeleteScoped
    \/ TenantCreate

SpecTenancy == InitTenancy /\ [][NextTenancy]_vars

\* C17: a rule update, toggle or delete performed in the admin session of
\* shop A never modifies or removes a rule owned by another shop, whatever
\* rule ids the request submits: every step of shop A's admin session leaves
\* each rule of shop B as it was.
C17_OtherShopsRulesUntouched ==
    [][\A id \in RuleIds :
          (rules[id].exists /\ rules[id].shop # ShopA) => rules'[id] = rules[id]]_vars

----------------------------------------------------------------------------
(* webhooks.app.uninstalled and webhooks.app.gdpr actions *)

Tables == {"session", "settings", "redirectRule", "analyticsCountry", "analyticsRule",
           "monthlyUsage", "visitorLog"}

\* Promise.all over one deleteMany({ where: { shop } }) per table: the
\* statements run independently, those named in failing reject and leave
\* their table as it is
deleteShopData(shop, failing) ==
    /\ session' = IF "session" \in failing THEN session ELSE session \ {shop}
    /\ settings' = IF "settings" \in failing THEN settings
                   ELSE [settings EXCEPT ![shop] = NoRow]
    /\ rules' = IF "redirectRule" \in failing THEN rules
                ELSE [id \in RuleIds |->
                        IF rules[id].exists /\ rules[id].shop = shop
                        THEN NoRow ELSE rules[id]]
    /\ analyticsCountry' =
          IF "analyticsCountry" \in failing THEN analyticsCountry
          ELSE [k \in DOMAIN analyticsCountry |->
                  IF k[1] = shop THEN NoRow ELSE analyticsCountry[k]]
    /\ analyticsRule' =
          IF "analyticsRule" \in failing THEN analyticsRule
          ELSE [k \in DOMAIN analyticsRule |->
                  IF k[1] = shop THEN NoRow ELSE analyticsRule[k]]
    /\ usage' = IF "monthlyUsage" \in failing THEN usage
                ELSE [usage EXCEPT ![shop] = [m \in {1, 2} |-> NoRow]]
    /\ visitorLog' = IF "visitorLog" \in failing THEN visitorLog
                     ELSE [visitorLog EXCEPT ![shop] = NoLogs]

webhookFrame == <<now, intl, subscription, billed, proc, lastCleanupDate, events, upsertNative, processState>>

\* app/uninstalled: authenticate.webhook loads the shop's session; the data
\* is deleted if there is one; a rejected statement makes the action throw
WebhookUninstalled(shop, failing) ==
    LET W == "webhooks.app.uninstalled" IN
    /\ UNCHANGED webhookFrame
    /\ IF shop \in session
       THEN /\ deleteShopData(shop, failing)
            /\ response' = Json(W, shop, IF failing = {} THEN 200 ELSE 500, {})
       ELSE /\ UNCHANGED <<session, settings, rules, analyticsCountry, analyticsRule,
                           usage, visitorLog>>
            /\ response' = Json(W, shop, 200, {})

\* shop/redact: the same deletes inside try / catch, whatever the session
WebhookShopRedact(shop, failing) ==
    /\ UNCHANGED webhookFrame
    /\ deleteShopData(shop, failing)
    /\ response' = Json("webhooks.app.gdpr", shop, 200, {"success"})

----------------------------------------------------------------------------
(* Specification of uninstallation: two installed shops with rows in every  *)
(* table, storefront traffic that adds rows, and the webhooks, which        *)
(* Shopify delivers again after a failed delivery and may deliver twice.    *)

FullEvent == [type |-> "redirected", countryCode |-> "DE", ruleId |-> "r1",
              visitorIP |-> "10.0.0.1"]

InitUninstall ==
    /\ settings = [s \in Shops |-> DefaultSettings(PREMIUM_PLAN)]
    /\ rules = [NoRules EXCEPT
                  !["r1"] = RuleRow(ShopA, "country", CountryForm(10, FALSE)),
                  !["r3"] = RuleRow(ShopB, "country", CountryForm(10, FALSE))]
    /\ usage = [s \in Shops |-> [m \in {1, 2} |-> IF m = 1 THEN UsageRow(1) ELSE NoRow]]
    /\ now = Noon
    /\ intl = "h00"
    /\ response = NoResponse
    /\ subscription = [s \in Shops |-> Null]
    /\ billed = [m \in {1, 2} |-> 0]
    /\ proc = <<>>
    /\ visitorLog = [s \in Shops |-> [old |-> 0, fresh |-> 1]]
    /\ analyticsCountry =
          [k \in Shops \X Dates \X CountryCodes |->
              IF k[2] = Today /\ k[3] = "DE"
              THEN analyticsCountryUpsert(NoRow, "redirected") ELSE NoRow]
    /\ analyticsRule =
          [k \in Shops \X Dates \X RuleIds |->
              IF k[2] = Today /\ k[3] = "r1"
              THEN analyticsRuleUpsert(NoRow, "redirected") ELSE NoRow]
    /\ lastCleanupDate = Today
    /\ session = Shops
    /\ events = <<>>
    /\ upsertNative = TRUE
    /\ NoProcessState

\* one of the statements is rejected, or none is
Failures == {{}} \cup {{t} : t \in Tables}

UninstallDelivery ==
    /\ Quiet
    /\ \E shop \in Shops, failing \in Failures : WebhookUninstalled(shop, failing)

RedactDelivery ==
    /\ Quiet
    /\ \E shop \in Shops, failing \in Failures : WebhookShopRedact(shop, failing)

UninstallTraffic ==
    /\ Quiet
    /\ \E shop \in Shops :
          /\ Recorded(shop) < MaxRecorded + 4
          /\ ProxyAnalytics(shop, FullEvent, "none", TRUE)

NextUninstall ==
    \/ UninstallDelivery
    \/ RedactDelivery
    \/ UninstallTraffic
    \/ Receive

SpecUninstall == InitUninstall /\ [][NextUninstall]_vars

\* shop has a row in some table
HasRows(shop) ==
    \/ shop \in session
    \/ settings[shop].exists
    \/ \E id \in RuleIds : rules[id].exists /\ rules[id].shop = shop
    \/ \E k \in DOMAIN analyticsCountry : k[1] = shop /\ analyticsCountry[k].exists
    \/ \E k \in DOMAIN analyticsRule : k[1] = shop /\ analyticsRule[k].exists
    \/ \E m \in {1, 2} : usage[shop][m].exists
    \/ visitorLog[shop] # NoLogs

\* C18: after the app-uninstalled webhook for shop S has been handled, no
\* Session, Settings, RedirectRule, AnalyticsCountry, AnalyticsRule,
\* MonthlyUsage or VisitorLog row for S remains, and the rows of every other
\* shop are unchanged.
C18_UninstallLeavesNoRows ==
    [][(Served("webhooks.app.uninstalled") /\ response'.status = 200) =>
        \A S \in Shops : response'.shop = S =>
        /\ ~HasRows(S)'
        /\ \A o \in Shops \ {S} :
              /\ (o \in session') = (o \in session)
              /\ settings'[o] = settings[o]
              /\ usage'[o] = usage[o]
              /\ visitorLog'[o] = visitorLog[o]
              /\ \A id \in RuleIds :
                    (rules[id].exists /\ rules[id].shop = o) => rules'[id] = rules[id]
              /\ \A k \in DOMAIN analyticsCountry :
                    k[1] = o => analyticsCountry'[k] = analyticsCountry[k]
              /\ \A k \in DOMAIN analyticsRule :
                    k[1] = o => analyticsRule'[k] = analyticsRule[k]]_vars

\* C19: the storefront config endpoint never answers a visitor with a 5xx
\* status: when loading settings, rules or usage, or lazily creating
\* settings, fails, the answer is at worst a successful response that means
\* no geolocation action for this request.
C19_ConfigNeverServerError ==
    [][Served("proxy.config") =>
          response'.status < 500]_vars

\* C20: if the billing API call createUsageRecord fails, the charging code
\* returns normally, makes no further charge attempt in that invocation and
\* leaves chargedVisitors unchanged, so that the same overage is still
\* payable on a later invocation: the failing step ends the invocation with
\* the usage table and the billed units as they were, and an invocation that
\* has ended this way takes no further step.
C20_FailedChargeLeavesOveragePayable ==
    [][\A p \in ProcIds :
          /\ (proc[p].pc = "charge" /\ proc'[p] # proc[p] /\ billed' = billed) =>
                /\ proc'[p].pc = "failed"
                /\ usage' = usage
          /\ proc[p].pc = "failed" => proc'[p] = proc[p]]_vars

\* one invocation has failed to charge and nothing is billed or recorded as
\* charged; another invocation stands before createUsageRecord with the whole
\* overage
C20_Witness ==
    \E p, q \in ProcIds :
        /\ proc[p].pc = "failed"
        /\ billed[1] = 0
        /\ chargedVisitorsOf(usage[ShopA][1]) = 0
        /\ proc[q].pc = "charge"
        /\ proc[q].overageVisitors = Due(ShopA, 1)
        /\ Due(ShopA, 1) > 0

----------------------------------------------------------------------------
(* Visitor IP from the request headers *)

\* request.headers.get(name): Null when the header is absent
NoHeaders ==
    [shopify |-> Null, cf |-> Null, realIP |-> Null, trueClientIP |-> Null,
     clientIP |-> Null, forwardedFor |-> NullCsv]

\* the text of a list item as it stands in the header, blanks included
Raw(item) == IF item.pad THEN " " \o item.text \o " " ELSE item.text

\* proxy.config: getVisitorIP()
getVisitorIP(h) ==
    IF Truthy(h.shopify) THEN h.shopify
    ELSE IF Truthy(h.cf) THEN h.cf
    ELSE IF Truthy(h.realIP) THEN h.realIP
    ELSE IF Truthy(h.trueClientIP) THEN h.trueClientIP
    ELSE IF Truthy(h.clientIP) THEN h.clientIP
    ELSE IF CsvTruthy(h.forwardedFor) THEN Trim(Split(h.forwardedFor)[1]).text
    ELSE "0.0.0.0"

\* api.geolocation:
\* get("x-shopify-client-ip") || get("x-forwarded-for")?.split(',')[0] || "0.0.0.0"
apiVisitorIP(h) ==
    IF Truthy(h.shopify) THEN h.shopify
    ELSE IF h.forwardedFor.kind # "null" /\ Truthy(Raw(Split(h.forwardedFor)[1]))
    THEN Raw(Split(h.forwardedFor)[1])
    ELSE "0.0.0.0"

----------------------------------------------------------------------------
(* Specification of the visitor IP: requests with every combination of the  *)
(* client-IP headers arrive at the two config endpoints of one shop.        *)

HeaderSets ==
    [shopify : {Null, Empty, "10.0.0.1"},
     cf : {Null, "10.0.1.7"},
     realIP : {Null, "100.64.0.9"},
     trueClientIP : {Null, "100.64.0.9"},
     clientIP : {Null, "100.64.0.9"},
     forwardedFor : {NullCsv, EmptyCsv, Csv(<<Item("10.0.1.7")>>),
                     Csv(<<Padded("10.0.0.1"), Item("10.0.1.7")>>)}]

InitHeaders ==
    /\ settings = [NoSettings EXCEPT ![ShopA] = DefaultSettings(PREMIUM_PLAN)]
    /\ rules = NoRules
    /\ usage = NoUsage
    /\ now = Noon
    /\ intl = "h00"
    /\ response = NoResponse
    /\ subscription = [s \in Shops |-> Null]
    /\ billed = [m \in {1, 2} |-> 0]
    /\ proc = <<>>
    /\ NoAnalytics

requestFrame ==
    <<settings, rules, usage, now, intl, response, subscription, billed, proc,
      analyticsTables, session, events, upsertNative,
      deletes, reader, initPromise, initCalls, loginAttempts, clock>>

\* a request reaches one of the endpoints
HeadersArrive ==
    /\ Quiet
    /\ \E kind \in {"proxy.config", "api.geolocation"}, h \in HeaderSets :
          request' = [kind |-> kind, shop |-> ShopA, headers |-> h]
    /\ UNCHANGED requestFrame

HeadersConfigAnswer ==
    /\ Quiet
    /\ request.kind = "proxy.config"
    /\ ProxyConfig(request.shop, getVisitorIP(request.headers), "DE", TRUE, "none", Null,
                   <<>>, <<>>)

HeadersApiAnswer ==
    /\ Quiet
    /\ request.kind = "api.geolocation"
    /\ ApiGeolocation(request.shop, apiVisitorIP(request.headers), "none", <<>>)

NextHeaders ==
    \/ HeadersArrive
    \/ HeadersConfigAnswer
    \/ HeadersApiAnswer
    \/ Receive

SpecHeaders == InitHeaders /\ [][NextHeaders]_vars

\* the visitor IP by the stated order: the Shopify header, then the
\* Cloudflare header, then the first segment of X-Forwarded-For, trimmed,
\* then the placeholder; a header with an empty value counts as absent
StatedVisitorIP(h) ==
    IF Truthy(h.shopify) THEN h.shopify
    ELSE IF Truthy(h.cf) THEN h.cf
    ELSE IF CsvTruthy(h.forwardedFor) THEN Trim(Split(h.forwardedFor)[1]).text
    ELSE "0.0.0.0"

\* C21: the visitor IP is taken from the request headers in strict priority
\* order: the Shopify client-IP header, then the Cloudflare connecting-IP
\* header, then the first comma-separated segment of X-Forwarded-For,
\* trimmed, and the placeholder 0.0.0.0 when none is present; a
\* lower-priority header is used only if every higher-priority one is absent.
C21_VisitorIPPriority ==
    [][(Served("proxy.config") \/ Served("api.geolocation")) =>
          response'.visitorIP = StatedVisitorIP(request.headers)]_vars

\* the entries of an exclusion list, blanks around them dropped
ListedIPs(excludedIPs) ==
    IF excludedIPs.kind = "csv"
    THEN {excludedIPs.items[i].text : i \in 1..Len(excludedIPs.items)}
    ELSE {}

\* C22: the config response flags the visitor as excluded exactly when the
\* visitor IP equals one of the comma-separated entries of
\* settings.excludedIPs after trimming whitespace; with an empty exclusion
\* list no visitor is flagged.
C22_ExcludedIffListed ==
    [][((Served("proxy.config") \/ Served("api.geolocation"))
          /\ "isIPExcluded" \in response'.keys) =>
          (response'.isIPExcluded
             <=> response'.visitorIP \in ListedIPs(settings'[response'.shop].excludedIPs))]_vars

\* a visitor whose address stands in the list with blanks around it has been
\* flagged
C22_Witness ==
    /\ response.endpoint = "proxy.config" /\ response.status = 200
    /\ response.isIPExcluded
    /\ response.visitorIP = "10.0.0.1"
    /\ settings[ShopA].excludedIPs = Csv(<<Padded("10.0.0.1")>>)

----------------------------------------------------------------------------
(* Specification of the lazily created Settings row: config requests with a *)
(* valid signature and loads of the settings page of one shop are in flight *)
(* together, each database statement a step. The statements of the          *)
(* proxy.config loader that follow the create only read.                    *)

\* app.settings: defaultSettings, spread into the create data; currentPlan
\* is not among them and takes the column default
settingsPageDefaultsDisabled(plan) == [DefaultSettings(plan) EXCEPT !.mode = "disabled"]

settingsPageDefaults(plan) == DefaultSettings(plan)

\* settings.findUnique({ where: { shop } }) of either loader
LoadFind(e, shop, kind) ==
    /\ events[e].pc = "idle"
    /\ events' = [events EXCEPT ![e] =
          [pc |-> IF settings[shop].exists THEN "done" ELSE "create",
           type |-> kind, found |-> settings[shop].exists]]
    /\ UNCHANGED <<settings, usage, visitorLog, lastCleanupDate>>
    /\ UNCHANGED <<rules, now, intl, response, subscription, billed, proc,
                   analyticsCountry, analyticsRule, session, upsertNative, processState>>

\* settings.create: { data: { shop } } in proxy.config, { shop,
\* ...defaultSettings } in app.settings; the unique index Settings_shop_key
\* rejects the insert when the row is there by now, and the loader throws
LoadCreate(e, shop, planDefault) ==
    /\ events[e].pc = "create"
    /\ IF settings[shop].exists
       THEN /\ UNCHANGED settings
            /\ events' = [events EXCEPT ![e].pc = "failed"]
       ELSE /\ settings' = [settings EXCEPT ![shop] =
                  IF events[e].type = "app.settings"
                  THEN settingsPageDefaults(planDefault)
                  ELSE DefaultSettings(planDefault)]
            /\ events' = [events EXCEPT ![e].pc = "done"]
    /\ UNCHANGED <<usage, visitorLog, lastCleanupDate>>
    /\ UNCHANGED <<rules, now, intl, response, subscription, billed, proc,
                   analyticsCountry, analyticsRule, session, upsertNative, processState>>

InitSettings ==
    /\ \E row \in {NoRow, DefaultSettings(Null)} :
          settings = [NoSettings EXCEPT ![ShopA] = row]
    /\ rules = NoRules
    /\ usage = NoUsage
    /\ now = Noon
    /\ intl = "h00"
    /\ response = NoResponse
    /\ subscription = [s \in Shops |-> Null]
    /\ billed = [m \in {1, 2} |-> 0]
    /\ proc = <<>>
    /\ visitorLog = NoVisitorLog
    /\ analyticsCountry = NoAnalyticsCountry
    /\ analyticsRule = NoAnalyticsRule
    /\ lastCleanupDate = Today
    /\ session = Shops
    /\ events = [e \in EventIds |-> IdleEvent]
    /\ upsertNative = TRUE
    /\ NoProcessState

SettingsFinds ==
    \E e \in EventIds, kind \in {"proxy.config", "app.settings"} : LoadFind(e, ShopA, kind)

SettingsCreates ==
    \E e \in EventIds, planDefault \in PlanDefaults : LoadCreate(e, ShopA, planDefault)

SettingsLeaves == \E e \in EventIds : EventLeave(e)

NextSettings ==
    \/ SettingsFinds
    \/ SettingsCreates
    \/ SettingsLeaves

SpecSettings == InitSettings /\ [][NextSettings]_vars

\* C23: after any interleaving of signature-verified storefront config
\* requests and admin settings-page loads for one shop, several concurrent
\* first accesses included, exactly one Settings row exists for that shop,
\* created with the default values: once an access has come to its end the
\* row is there and holds the defaults, and a row that is there is never
\* replaced.
C23_OneDefaultSettingsRow ==
    [][/\ (\E e \in EventIds : events'[e].pc \in {"done", "failed"}) =>
            /\ settings'[ShopA].exists
            /\ \E plan \in PlanDefaults : settings'[ShopA] = DefaultSettings(plan)
       /\ settings[ShopA].exists => settings'[ShopA] = settings[ShopA]]_vars

\* two first accesses ran together: the settings page created the row and
\* the config request's insert was rejected
C23_Witness ==
    \E e, f \in EventIds :
        /\ events[e].pc = "done" /\ events[e].type = "app.settings" /\ ~events[e].found
        /\ events[f].pc = "failed" /\ events[f].type = "proxy.config"
        /\ settings[ShopA].exists

----------------------------------------------------------------------------
(* Specification of cleanupOldLogs as the event loop runs it: the function  *)
(* reads lastCleanupDate, issues deleteMany and is suspended at the await;  *)
(* lastCleanupDate is assigned when the statement has returned. deletes     *)
(* counts the deleteMany statements issued since the date last changed.     *)

cleanupFrame ==
    <<settings, rules, usage, intl, response, subscription, billed, proc,
      analyticsCountry, analyticsRule, session, upsertNative,
      request, reader, initPromise, initCalls, loginAttempts, clock>>

MaxDeletes == 3
LastDay == 2

\* const today = ...; if (lastCleanupDate === today) return; otherwise the
\* call goes on to await prisma.visitorLog.deleteMany
CleanupCall(e) ==
    /\ events[e].pc = "idle"
    /\ IF lastCleanupDate = Today
       THEN /\ events' = [events EXCEPT ![e] =
                  [pc |-> "done", type |-> "cleanup", found |-> TRUE, today |-> Today]]
            /\ UNCHANGED deletes
       ELSE /\ deletes < MaxDeletes
            /\ events' = [events EXCEPT ![e] =
                  [pc |-> "deleting", type |-> "cleanup", found |-> FALSE, today |-> Today]]
            /\ deletes' = deletes + 1
    /\ UNCHANGED <<visitorLog, lastCleanupDate, now>>
    /\ UNCHANGED cleanupFrame

\* the deleteMany returns and lastCleanupDate = today runs, or it throws and
\* the catch logs the error
CleanupSettle(e, ok) ==
    /\ events[e].pc = "deleting"
    /\ IF ok
       THEN /\ visitorLog' = [s \in DOMAIN visitorLog |-> [visitorLog[s] EXCEPT !.old = 0]]
            /\ lastCleanupDate' = events[e].today
            /\ events' = [events EXCEPT ![e].pc = "done"]
       ELSE /\ events' = [events EXCEPT ![e].pc = "failed"]
            /\ UNCHANGED <<visitorLog, lastCleanupDate>>
    /\ UNCHANGED <<deletes, now>>
    /\ UNCHANGED cleanupFrame

\* the UTC date changes; rows written before the retention period are old now
DayTurns ==
    /\ now.day < LastDay
    /\ now' = [now EXCEPT !.day = now.day + 1]
    /\ deletes' = 0
    /\ \E stale \in {0, 1} : visitorLog' = [visitorLog EXCEPT ![ShopA].old = stale]
    /\ UNCHANGED <<events, lastCleanupDate>>
    /\ UNCHANGED cleanupFrame

InitCleanup ==
    /\ settings = [NoSettings EXCEPT ![ShopA] = DefaultSettings(Null)]
    /\ rules = NoRules
    /\ usage = NoUsage
    /\ now = Noon
    /\ intl = "h00"
    /\ response = NoResponse
    /\ subscription = [s \in Shops |-> Null]
    /\ billed = [m \in {1, 2} |-> 0]
    /\ proc = <<>>
    /\ \E stale \in {0, 1} :
          visitorLog = [NoVisitorLog EXCEPT ![ShopA].old = stale]
    /\ analyticsCountry = NoAnalyticsCountry
    /\ analyticsRule = NoAnalyticsRule
    /\ lastCleanupDate = NeverCleaned
    /\ session = Shops
    /\ events = [e \in EventIds |-> IdleEvent]
    /\ upsertNative = TRUE
    /\ NoProcessState

CleanupCalls == \E e \in EventIds : CleanupCall(e)

CleanupSettles == \E e \in EventIds, ok \in BOOLEAN : CleanupSettle(e, ok)

CleanupReturns == \E e \in EventIds : EventLeave(e)

NextCleanup ==
    \/ CleanupCalls
    \/ CleanupSettles
    \/ CleanupReturns
    \/ DayTurns

SpecCleanup == InitCleanup /\ [][NextCleanup]_vars

\* C24: within one server process the visitor-log cleanup delete runs at
\* most once per calendar day (UTC date string), for any sequence or
\* interleaving of cleanupOldLogs calls, calls that start while an earlier
\* call's delete is still in flight included.
C24_DeleteAtMostOncePerDay == deletes <= 1

----------------------------------------------------------------------------
(* Specification of the geolocation reader: getCountryFromIP calls of one   *)
(* process, suspended at await initPromise. initReader runs up to its first *)
(* await inside the call that starts it; the step that settles the promise  *)
(* stands for the rest of it (update check, existsSync, maxmind.open).      *)

readerFrame ==
    <<settings, rules, usage, now, intl, response, subscription, billed, proc,
      analyticsTables, session, upsertNative,
      request, deletes, loginAttempts, clock>>

MaxInits == 2

\* if (!initPromise)
needsInitWithoutReader == reader = Null

needsInit == initPromise = Null

\* reader.get(ip): the country's iso_code, or '' for an address the database
\* does not hold or a lookup that throws
readerGet(ip) == IF ip = "10.0.1.7" THEN "DE" ELSE ""

LookupIPs == {"10.0.0.1", "10.0.1.7"}

\* getCountryFromIP up to await initPromise, or to its return when the
\* reader is there
LookupCall(e, ip) ==
    /\ events[e].pc = "idle"
    /\ IF reader # Null
       THEN /\ events' = [events EXCEPT ![e] =
                  [pc |-> "done", type |-> readerGet(ip), found |-> TRUE,
                   late |-> TRUE, ip |-> ip]]
            /\ UNCHANGED <<initPromise, initCalls>>
       ELSE /\ events' = [events EXCEPT ![e] =
                  [pc |-> "awaiting", type |-> Null, found |-> FALSE,
                   late |-> initPromise = "resolved", ip |-> ip]]
            /\ IF needsInit
               THEN /\ initCalls < MaxInits
                    /\ initPromise' = "pending"
                    /\ initCalls' = initCalls + 1
               ELSE UNCHANGED <<initPromise, initCalls>>
    /\ UNCHANGED reader
    /\ UNCHANGED readerFrame

\* initReader comes to its end: the database was opened, or the file is
\* missing, or maxmind.open threw
InitSettles(outcome) ==
    /\ initPromise = "pending"
    /\ initPromise' = "resolved"
    /\ reader' = IF outcome = "opened" THEN "reader" ELSE reader
    /\ UNCHANGED <<events, initCalls>>
    /\ UNCHANGED readerFrame

\* getCountryFromIP after await initPromise
LookupResume(e) ==
    /\ events[e].pc = "awaiting"
    /\ initPromise = "resolved"
    /\ events' = [events EXCEPT ![e] =
          [pc |-> "done",
           type |-> IF reader = Null THEN "" ELSE readerGet(events[e].ip),
           found |-> reader # Null,
           late |-> events[e].late,
           ip |-> events[e].ip]]
    /\ UNCHANGED <<reader, initPromise, initCalls>>
    /\ UNCHANGED readerFrame

InitReader ==
    /\ settings = [NoSettings EXCEPT ![ShopA] = DefaultSettings(Null)]
    /\ rules = NoRules
    /\ usage = NoUsage
    /\ now = Noon
    /\ intl = "h00"
    /\ response = NoResponse
    /\ subscription = [s \in Shops |-> Null]
    /\ billed = [m \in {1, 2} |-> 0]
    /\ proc = <<>>
    /\ visitorLog = NoVisitorLog
    /\ analyticsCountry = NoAnalyticsCountry
    /\ analyticsRule = NoAnalyticsRule
    /\ lastCleanupDate = Today
    /\ session = Shops
    /\ events = [e \in EventIds |-> IdleEvent]
    /\ upsertNative = TRUE
    /\ NoProcessState

LookupCalls == \E e \in EventIds, ip \in LookupIPs : LookupCall(e, ip)

ReaderSettles == \E outcome \in {"opened", "missing", "threw"} : InitSettles(outcome)

LookupResumes == \E e \in EventIds : LookupResume(e)

LookupReturns == \E e \in EventIds : EventLeave(e)

NextReader ==
    \/ LookupCalls
    \/ ReaderSettles
    \/ LookupResumes
    \/ LookupReturns

SpecReader == InitReader /\ [][NextReader]_vars

\* C25: the geolocation database reader is initialised at most once per
\* process: for any interleaving of concurrent getCountryFromIP calls
\* initReader is started only once, and after an initialisation that did
\* not produce a reader every later lookup returns the empty country
\* without attempting initialisation again.
C25_ReaderInitialisedOnce ==
    [][/\ initCalls' <= 1
       /\ (initPromise = "resolved" /\ reader = Null) =>
             /\ initCalls' = initCalls
             /\ initPromise' = initPromise
             /\ reader' = Null
             /\ \A e \in EventIds :
                   (events[e].pc # "done" /\ events'[e].pc = "done") =>
                       events'[e].type = ""]_vars

\* a lookup that was called after the failed initialisation has returned the
\* empty country, while another call is waiting
C25_Witness ==
    /\ initPromise = "resolved"
    /\ reader = Null
    /\ initCalls = 1
    /\ \E e, f \in EventIds :
          /\ events[e].pc = "done" /\ events[e].late /\ events[e].type = ""
          /\ events[e].ip = "10.0.1.7"
          /\ events[f].pc = "awaiting"

----------------------------------------------------------------------------
(* Specification of overage charging with the invocations run one after the *)
(* other and no visitor arriving: a loader starts when no other is running  *)

NoneRunning == \A p \in ProcIds : proc[p].pc \in {"idle", "done", "failed"}

SequentialStart == NoneRunning /\ BillingStart

NextSequential ==
    \/ SequentialStart \/ BillingCheckStep
    \/ LayoutReadStep \/ DashboardReadStep \/ DashboardRecheckStep
    \/ CreateUsageRecordStep
    \/ LayoutTxReadStep \/ LayoutTxWriteStep \/ DashboardUpdateStep

SpecSequential == InitBilling /\ [][NextSequential]_vars

\* a createUsageRecord has succeeded and the invocation that made it has
\* written chargedVisitors and returned
ChargeCompleted ==
    /\ billed[1] > 0
    /\ \A p \in ProcIds : proc[p].pc \notin {"txRead", "txWrite", "update"}

\* C26: after one overage-charging invocation has completed successfully,
\* an immediately following invocation with no new visitors in between
\* bills nothing and leaves chargedVisitors unchanged.
C26_ChargingIdempotent ==
    [][ChargeCompleted =>
          /\ billed' = billed
          /\ usage' = usage
          /\ \A p \in ProcIds : proc'[p].pc # "charge"]_vars

\* the first invocation billed the 50 units due, wrote chargedVisitors and
\* returned; the one that followed has read the row a first time
C26_Witness ==
    /\ billed[1] = MaxBacklog
    /\ chargedVisitorsOf(usage[ShopA][1]) = MaxBacklog
    /\ \E p, q \in ProcIds :
          /\ proc[p].pc = "done" /\ proc[p].kind = "layout"
          /\ proc[q].pc = "recheck"

----------------------------------------------------------------------------
\* C27: in every reachable state, each MonthlyUsage row satisfies
\* totalVisitors = redirected + blocked, after any sequence of accepted
\* analytics events of any types.
C27_TotalIsRedirectedPlusBlocked ==
    \A s \in Shops, m \in {1, 2} :
        usage[s][m].exists =>
            usage[s][m].totalVisitors = usage[s][m].redirected + usage[s][m].blocked

\* the month's row was created by a redirect and raised by a block
C27_Witness ==
    /\ usage[ShopA][1].exists
    /\ usage[ShopA][1].totalVisitors = 2
    /\ usage[ShopA][1].redirected = 1
    /\ usage[ShopA][1].blocked = 1
    /\ response.endpoint = "proxy.analytics" /\ response.type = "blocked"

----------------------------------------------------------------------------
\* the AnalyticsRule counter the claim assigns to an event type
StatedRuleCounter(row, type) ==
    IF ~row.exists THEN 0
    ELSE CASE type = "popup_shown" -> row.seen
           [] type = "redirected" -> row.clickedYes
           [] type \in {"auto_redirected", "ip_redirected"} -> row.autoRedirected
           [] type = "clicked_no" -> row.clickedNo
           [] type = "dismissed" -> row.dismissed
           [] type = "ip_blocked" -> row.blocked
           [] OTHER -> 0

\* C28: for every accepted analytics event carrying a ruleId, the per-rule
\* per-day counter that the event type maps to (popup_shown to seen,
\* redirected to clickedYes, auto_redirected and ip_redirected to
\* autoRedirected, clicked_no to clickedNo, dismissed to dismissed,
\* ip_blocked to blocked) ends exactly 1 higher than before, whether the
\* AnalyticsRule row already existed or is created by this event.
C28_RuleCounterRaisedByOne ==
    [][(Served("proxy.analytics") /\ response'.status = 200
          /\ response'.type \in RuleTypes) =>
          \A k \in DOMAIN analyticsRule :
              analyticsRule'[k] # analyticsRule[k] =>
                  StatedRuleCounter(analyticsRule'[k], response'.type)
                      = StatedRuleCounter(analyticsRule[k], response'.type) + 1]_vars

----------------------------------------------------------------------------
(* admin.session.server and the action of admin.login; the clock counts     *)
(* minutes                                                                  *)

MAX_ATTEMPTS == 5
BLOCK_DURATION == 15

NoEntry == [exists |-> FALSE]

\* now - entry.firstAttempt > BLOCK_DURATION_MS
windowExpiredAtEnd(entry, time) == time - entry.firstAttempt >= BLOCK_DURATION

windowExpired(entry, time) == time - entry.firstAttempt > BLOCK_DURATION

\* entry.count >= MAX_ATTEMPTS
attemptsUsedUpLate(entry) == entry.count > MAX_ATTEMPTS

attemptsUsedUp(entry) == entry.count >= MAX_ATTEMPTS

\* checkRateLimit(ip): the store after the call and the blocked flag
checkRateLimit(ip) ==
    LET entry == loginAttempts[ip] IN
    IF ~entry.exists THEN [store |-> loginAttempts, blocked |-> FALSE]
    ELSE IF windowExpired(entry, clock)
    THEN [store |-> [loginAttempts EXCEPT ![ip] = NoEntry], blocked |-> FALSE]
    ELSE [store |-> loginAttempts, blocked |-> attemptsUsedUp(entry)]

\* recordFailedAttempt(ip): the store after the call
recordFailedAttempt(ip) ==
    LET entry == loginAttempts[ip] IN
    IF ~entry.exists \/ windowExpired(entry, clock)
    THEN [loginAttempts EXCEPT ![ip] =
             [exists |-> TRUE, count |-> 1, firstAttempt |-> clock]]
    ELSE [loginAttempts EXCEPT ![ip] =
             [exists |-> TRUE, count |-> entry.count + 1,
              firstAttempt |-> entry.firstAttempt]]

\* clearAttempts(ip)
clearAttempts(ip) == [loginAttempts EXCEPT ![ip] = NoEntry]

loginFrame ==
    <<settings, rules, usage, now, intl, response, subscription, billed, proc,
      analyticsTables, session, upsertNative,
      request, deletes, reader, initPromise, initCalls>>

\* an attempt: the client address, whether the submitted username and
\* password are the configured ones, whether the store held an entry when
\* the attempt came in, the status of the answer, whether
\* validateCredentials ran and whether the answer carries Set-Cookie
Attempt(pc, ip, correct, seen, status, checked, cookie) ==
    [pc |-> pc, type |-> ip, found |-> correct, seen |-> seen,
     status |-> status, checked |-> checked, cookie |-> cookie]

\* POST /admin/login up to await request.formData(): getClientIP,
\* checkRateLimit, and the 429 answer when blocked
LoginArrive(e, ip, correct) ==
    /\ events[e].pc = "idle"
    /\ LET rateCheck == checkRateLimit(ip)
           seen == loginAttempts[ip].exists
       IN  /\ loginAttempts' = rateCheck.store
           /\ events' = [events EXCEPT ![e] =
                 IF rateCheck.blocked
                 THEN Attempt("done", ip, correct, seen, 429, FALSE, FALSE)
                 ELSE Attempt("form", ip, correct, seen, 0, FALSE, FALSE)]
    /\ UNCHANGED clock
    /\ UNCHANGED loginFrame

\* the action after await request.formData(): validateCredentials, then
\* recordFailedAttempt and 401, or clearAttempts, the session and the
\* redirect with Set-Cookie
LoginSubmit(e) ==
    /\ events[e].pc = "form"
    /\ LET ip == events[e].type IN
       IF ~events[e].found
       THEN /\ loginAttempts' = recordFailedAttempt(ip)
            /\ events' = [events EXCEPT ![e].pc = "done", ![e].status = 401,
                                        ![e].checked = TRUE]
       ELSE /\ loginAttempts' = clearAttempts(ip)
            /\ events' = [events EXCEPT ![e].pc = "done", ![e].status = 302,
                                        ![e].checked = TRUE, ![e].cookie = TRUE]
    /\ UNCHANGED clock
    /\ UNCHANGED loginFrame

\* Date.now() moves on
MaxClock == 17
Elapses == {7, 8}

TimePasses(d) ==
    /\ clock + d <= MaxClock
    /\ clock' = clock + d
    /\ UNCHANGED <<events, loginAttempts>>
    /\ UNCHANGED loginFrame

----------------------------------------------------------------------------
(* Specification of admin login: attempts from two client addresses, in     *)
(* flight together, while time passes                                       *)

InitLogin ==
    /\ settings = [NoSettings EXCEPT ![ShopA] = DefaultSettings(Null)]
    /\ rules = NoRules
    /\ usage = NoUsage
    /\ now = Noon
    /\ intl = "h00"
    /\ response = NoResponse
    /\ subscription = [s \in Shops |-> Null]
    /\ billed = [m \in {1, 2} |-> 0]
    /\ proc = <<>>
    /\ visitorLog = NoVisitorLog
    /\ analyticsCountry = NoAnalyticsCountry
    /\ analyticsRule = NoAnalyticsRule
    /\ lastCleanupDate = Today
    /\ session = Shops
    /\ events = [e \in EventIds |-> IdleEvent]
    /\ upsertNative = TRUE
    /\ NoProcessState

\* one address submits right and wrong credentials, the other the right ones
LoginInputs ==
    {<<"10.0.0.1", FALSE>>, <<"10.0.0.1", TRUE>>, <<"10.0.1.7", TRUE>>}

LoginArrives ==
    \E e \in EventIds, input \in LoginInputs : LoginArrive(e, input[1], input[2])

LoginSubmits == \E e \in EventIds : LoginSubmit(e)

LoginAnswered == \E e \in EventIds : EventLeave(e)

LoginWaits == \E d \in Elapses : TimePasses(d)

NextLogin ==
    \/ LoginArrives
    \/ LoginSubmits
    \/ LoginAnswered
    \/ LoginWaits

SpecLogin == InitLogin /\ [][NextLogin]_vars

\* an attempt from ip comes in with this step
Arrives(e, ip) ==
    /\ events[e].pc = "idle"
    /\ events'[e].pc # "idle"
    /\ events'[e].type = ip

\* 5 failed attempts are on record for ip and less than 15 minutes have
\* passed since the first of them
Locked(ip) ==
    /\ loginAttempts[ip].exists
    /\ loginAttempts[ip].count >= 5
    /\ clock - loginAttempts[ip].firstAttempt < 15

\* C29: once 5 failed admin login attempts are recorded for a client IP and
\* less than 15 minutes have passed since the first of them, every login
\* attempt from that IP is answered 429 without checking credentials and
\* without setting a session, even when the submitted username and
\* password are correct.
C29_LockedOutAfterFiveFailures ==
    [][\A e \in EventIds, ip \in DOMAIN loginAttempts :
          (Arrives(e, ip) /\ Locked(ip)) =>
              /\ events'[e].pc = "done"
              /\ events'[e].status = 429
              /\ ~events'[e].checked
              /\ ~events'[e].cookie
              /\ loginAttempts' = loginAttempts]_vars

\* five failures are on record, 8 minutes after the first, and an attempt
\* with the right credentials has been answered 429
C29_Witness ==
    \E e \in EventIds :
        /\ events[e].pc = "done"
        /\ events[e].status = 429
        /\ events[e].found
        /\ events[e].seen
        /\ Locked(events[e].type)

\* more than 15 minutes have passed since the first recorded failure of the
\* window of ip
WindowOver(ip) == clock - loginAttempts[ip].firstAttempt > 15

\* C30: the admin login failure counter of a client IP is reset both by a
\* successful login and by the passing of more than 15 minutes since the
\* first recorded failure of the current window (a fixed window anchored at
\* the first failure, not a sliding one): after either, the next attempt is
\* evaluated against the credentials and a failure starts a new window with
\* count 1.
C30_CounterResetBySuccessAndTime ==
    [][\A e \in EventIds, ip \in DOMAIN loginAttempts :
          /\ (Arrives(e, ip) /\ ~loginAttempts[ip].exists) =>
                /\ events'[e].pc = "form"
                /\ loginAttempts' = loginAttempts
          /\ (Arrives(e, ip) /\ loginAttempts[ip].exists) =>
                IF WindowOver(ip)
                THEN /\ events'[e].pc = "form"
                     /\ ~loginAttempts'[ip].exists
                ELSE loginAttempts' = loginAttempts
          /\ (events[e].pc = "form" /\ events'[e].pc = "done" /\ events[e].type = ip) =>
                /\ events'[e].checked
                /\ events'[e].status = IF events[e].found THEN 302 ELSE 401
                /\ events[e].found => ~loginAttempts'[ip].exists
                /\ ~events[e].found =>
                      /\ loginAttempts'[ip].exists
                      /\ IF ~loginAttempts[ip].exists \/ WindowOver(ip)
                         THEN /\ loginAttempts'[ip].count = 1
                              /\ loginAttempts'[ip].firstAttempt = clock
                         ELSE /\ loginAttempts'[ip].count = loginAttempts[ip].count + 1
                              /\ loginAttempts'[ip].firstAttempt
                                     = loginAttempts[ip].firstAttempt]_vars

\* an attempt that found an entry on record came in more than 15 minutes
\* after the window's first failure and failed: the store holds a new window
\* with count 1, anchored at this failure
C30_Witness ==
    \E e \in EventIds :
        /\ events[e].pc = "done"
        /\ events[e].status = 401
        /\ events[e].seen
        /\ clock > 15
        /\ loginAttempts[events[e].type].exists
        /\ loginAttempts[events[e].type].count = 1
        /\ loginAttempts[events[e].type].firstAttempt = clock

====
